---- MODULE Spec2Model ----
(***************************************************************************)
(* Reservation / settlement state machine of the mochi_v2_vault program:   *)
(* VaultState, CardRecord, PackSession (full pack), PackSessionV2          *)
(* (lightweight, Rare+ only), the custody of the underlying Core assets    *)
(* and the marketplace Listing.  Every instruction is one atomic ledger    *)
(* transaction: a handler that returns an error commits nothing, so only   *)
(* successful calls are steps of the state machine; what a call would do   *)
(* in a state is the value of its <name>Call operator there.               *)
(***************************************************************************)
EXTENDS Integers, Sequences, FiniteSets, TLC

\* ------------------------------------------------------------------ bounds
\* The clock runs over 0..MaxTime.
MaxTime == 2
\* Longest batch of CardRecord accounts a caller hands to the lightweight calls.
MaxBatch == 2
\* The seed sale's clock runs over 0..MaxSeedTime.
MaxSeedTime == 5
\* Lamports each buyer's wallet holds before the sale.
BuyerLamports == 4

\* ------------------------------------------------------- program constants
\* Cards in a full pack (11 in the source; the model's packs are smaller).
PACK_CARD_COUNT == 2
MAX_RARE_CARDS == 3
BPS_DENOMINATOR == 10000
\* The largest value of the model's unsigned amounts (u64::MAX in the source).
WordMax == 16777215

\* ---------------------------------------------------------------- universe
Users == {"u1", "u2"}
\* The wallets whose pack sessions a specification explores.
Players == {"u1"}
ADMIN == "admin"
GACHA_VAULT == "vault_state"
MARKET_VAULT == "market_vault_state"
\* PDA [GACHA_VAULT_AUTHORITY_SEED, vault_state]
VAULT_AUTH == "vault_authority"
\* PDA [MARKETPLACE_VAULT_AUTHORITY_SEED, market vault_state]
MARKET_AUTH == "market_vault_authority"
TREASURY == "vault_treasury"
NoKey == "11111111"

GachaAssets == {"a1", "a2", "a3"}
\* CardRecord PDA [CARD_RECORD_SEED, vault_state, core_asset] of the gacha vault
GachaKey(a) == CASE a = "a1" -> "c1" [] a = "a2" -> "c2" [] OTHER -> "c3"
GachaKeys == {GachaKey(a) : a \in GachaAssets}
\* One CardRecord of the marketplace vault, for an asset listed there.
MarketAssets == {"b1"}
MarketKeys == {"m1"}
CardKeys == GachaKeys \cup MarketKeys
\* SPL token accounts a caller can pass: the user's and the vault's for the
\* vault's payment mint, and one of another mint.
TokenAccounts == {"tk_user", "tk_vault", "tk_other"}
TokenMintOf(t) == IF t = "tk_other" THEN "other_mint" ELSE "usdc"

Rarities == {"Common", "Uncommon", "Rare", "DoubleRare", "UltraRare",
             "IllustrationRare", "SpecialIllustrationRare", "MegaHyperRare", "Energy"}
CardStatuses == {"Available", "Reserved", "UserOwned", "RedeemPending", "Burned", "Deprecated"}
PackStates == {"Uninitialized", "PendingDecision", "Accepted", "Rejected", "Expired"}
Currencies == {"Sol", "Token"}

\* What the admin deposits for each asset: template id and rarity.
TemplateOf(a) == CASE a = "a1" -> 1 [] a = "a2" -> 2 [] OTHER -> 3
RarityOf(a) == CASE a = "a1" -> "Rare" [] a = "a2" -> "UltraRare" [] OTHER -> "Common"

VARIABLES now, vault, marketVault, cards, holder, packSession, packSessionV2, listing, last
vars == <<now, vault, marketVault, cards, holder, packSession, packSessionV2,
         listing, last>>
\* The accounts of the seed sale program and its clock.
VARIABLES seedNow, sale, contribution, vesting, lamports, tokens, seedLast
seedVars == <<seedNow, sale, contribution, vesting, lamports, tokens, seedLast>>

\* ------------------------------------------------------------------ records
NoVault == [admin |-> NoKey]
\* A CardRecord account that was never created (all zero, no discriminator).
NoCard == [vault_state |-> NoKey, core_asset |-> NoKey, template_id |-> 0,
           rarity |-> "Common", status |-> "Available", owner |-> NoKey]
\* A PackSessionV2 account before init_if_needed / zeroed.
NoSessionV2 == [exists |-> FALSE, user |-> NoKey, currency |-> "Sol", paid_amount |-> 0,
                created_at |-> 0, expires_at |-> 0, rare_card_keys |-> <<>>,
                rare_templates |-> <<>>, state |-> "Uninitialized"]
\* A PackSession account that does not exist (never created, or closed).
NoSession == [exists |-> FALSE, user |-> NoKey, currency |-> "Sol", paid_amount |-> 0,
              created_at |-> 0, expires_at |-> 0, card_record_keys |-> <<>>,
              state |-> "Uninitialized", rarity_prices |-> <<>>]
\* A Listing account that was never created.  A zeroed account reads as
\* status Active (variant 0 of ListingStatus); exists tells it apart.
NoListing == [exists |-> FALSE, vault_state |-> NoKey, seller |-> NoKey,
              core_asset |-> NoKey, price_lamports |-> 0, currency_mint |-> NoKey,
              status |-> "Active"]
NoCall == [op |-> "none", signer |-> NoKey, accounts |-> <<>>, payments |-> <<>>,
           moved |-> <<>>, minted |-> 0]

Err(e) == [ok |-> FALSE, err |-> e]

\* Account::<CardRecord>::try_from: the account holds a CardRecord.
IsCardRecord(cm, k) == k \in CardKeys /\ cm[k].vault_state # NoKey

is_rare_or_above_Any(rarity) == rarity \in Rarities

is_rare_or_above(rarity) ==
    rarity \in {"Rare", "DoubleRare", "UltraRare", "IllustrationRare",
                "SpecialIllustrationRare", "MegaHyperRare"}

SeqsUpTo(S, n) == UNION {[1..k -> S] : k \in 0..n}

\* ------------------------------------------------------- initialize_vault
InitConfigs ==
    {[pack_price_sol |-> 600, pack_price_usdc |-> 400, buyback_bps |-> 5000,
      claim_window_seconds |-> 1, marketplace_fee_bps |-> 250,
      core_collection |-> "collection",
      usdc_mint |-> "usdc", mochi_mint |-> m, reward_per_pack |-> r] :
        <<m, r>> \in {<<"mochi", 5>>}}

InitializeVaultCall(signer, cfg) ==
    [ok |-> TRUE, err |-> "",
          vault |-> [admin |-> signer, vault_authority |-> VAULT_AUTH,
                     pack_price_sol |-> cfg.pack_price_sol,
                     pack_price_usdc |-> cfg.pack_price_usdc,
                     buyback_bps |-> cfg.buyback_bps,
                     claim_window_seconds |-> cfg.claim_window_seconds,
                     marketplace_fee_bps |-> cfg.marketplace_fee_bps,
                     core_collection |-> cfg.core_collection,
                     usdc_mint |-> cfg.usdc_mint, mochi_mint |-> cfg.mochi_mint,
                     reward_per_pack |-> cfg.reward_per_pack]]

\* ------------------------------------------- initialize_marketplace_vault
InitializeMarketplaceVaultCall(signer, marketplace_fee_bps, core_collection, usdc_mint) ==
    [ok |-> TRUE, err |-> "",
     vault |-> [admin |-> signer, vault_authority |-> MARKET_AUTH,
                pack_price_sol |-> 0, pack_price_usdc |-> 0, buyback_bps |-> 0,
                claim_window_seconds |-> 0,
                marketplace_fee_bps |-> marketplace_fee_bps,
                core_collection |-> core_collection,
                usdc_mint |-> usdc_mint, mochi_mint |-> NoKey,
                reward_per_pack |-> 0]]


\* ------------------------------------------------------------------- Init
\* The vault as initialize_vault leaves it, with the cards of InitialAssets
\* already deposited by the admin (deposit_card, lib.rs 197-214).
InitialAssets == {"a1", "a2"}

DepositedRecord(a) ==
    [vault_state |-> GACHA_VAULT, core_asset |-> a, template_id |-> TemplateOf(a),
     rarity |-> RarityOf(a), status |-> "Available", owner |-> VAULT_AUTH]

\* The marketplace record as list_card leaves it (lib.rs 1138-1178).
ListedRecord(a) ==
    [vault_state |-> MARKET_VAULT, core_asset |-> a, template_id |-> 1,
     rarity |-> "Rare", status |-> "Reserved", owner |-> MARKET_AUTH]

\* The Listing as list_card leaves it (lib.rs 1181-1187).
ListedListing(a) ==
    [exists |-> TRUE, vault_state |-> MARKET_VAULT, seller |-> "u2",
     core_asset |-> a, price_lamports |-> 1000, currency_mint |-> NoKey,
     status |-> "Active"]

\* ------------------------------------------------- seed sale: the records
\* The seed sale program (mochi_seed_sale) is a second program of the
\* repository with accounts of its own; it reads the same kind of clock.
\* The wallets that can receive a vesting schedule.
Beneficiaries == {"u1"}
SALE_AUTHORITY == "sale_authority"
SALE_TREASURY == "sale_treasury"
\* Token accounts: the sale's vault (PDA [SEED_VAULT_TOKEN_SEED, sale]), the
\* vesting vault of a beneficiary (PDA [VEST_VAULT_TOKEN_SEED, beneficiary]),
\* and each wallet's own token account.
SEED_VAULT == <<"seed_vault", "sale">>
NoAccount == <<"none", "none">>
VestVault(b) == <<"vest_vault", b>>
Ata(u) == <<"ata", u>>
SeedTokenAccounts == {SEED_VAULT} \cup {VestVault(b) : b \in Beneficiaries} \cup {Ata(u) : u \in Users}
\* The canonical bump of the Contribution PDA [b"contrib", sale, buyer]: the
\* value find_program_address returns for these keys. It is a property of
\* the keys; nearly every key has a bump near 255, and the model also has
\* the key whose bump is 0, the value of a never-written bump field.
ContributionBump(buyer) == IF buyer = "u2" THEN 0 ELSE 255

NoSale ==
    [exists |-> FALSE, authority |-> NoKey, treasury |-> NoKey, start_ts |-> 0,
     end_ts |-> 0, price_tokens_per_sol |-> 0, token_cap |-> 0,
     sol_cap_lamports |-> 0, sold_tokens |-> 0, raised_lamports |-> 0,
     is_canceled |-> FALSE]
NoContribution ==
    [exists |-> FALSE, buyer |-> NoKey, contributed_lamports |-> 0,
     tokens_owed |-> 0, claimed |-> FALSE, bump |-> 0]
NoVesting ==
    [exists |-> FALSE, authority |-> NoKey, beneficiary |-> NoKey, start_ts |-> 0,
     cliff_ts |-> 0, end_ts |-> 0, total_amount |-> 0, claimed_amount |-> 0]
NoSeedCall ==
    [op |-> "", signer |-> NoKey, amount |-> 0, from |-> NoAccount, to |-> NoAccount]

\* Before init_sale and init_vesting: no account of the program exists, the
\* buyers hold their lamports, every token account is empty.
SeedIdle ==
    /\ seedNow = 0
    /\ sale = NoSale
    /\ contribution = [u \in Users |-> NoContribution]
    /\ vesting = [b \in Beneficiaries |-> NoVesting]
    /\ lamports = [u \in Users \cup {SALE_TREASURY} |->
                     IF u \in Users THEN BuyerLamports ELSE 0]
    /\ tokens = [t \in SeedTokenAccounts |-> 0]
    /\ seedLast = NoSeedCall

Init ==
    /\ now = 0
    /\ vault \in {InitializeVaultCall(ADMIN, cfg).vault : cfg \in InitConfigs}
    /\ cards = [k \in CardKeys |->
                  IF k \in MarketKeys THEN ListedRecord("b1")
                  ELSE IF \E a \in InitialAssets : GachaKey(a) = k
                  THEN DepositedRecord(CHOOSE a \in InitialAssets : GachaKey(a) = k)
                  ELSE NoCard]
    /\ holder = [a \in GachaAssets \cup MarketAssets |->
                   IF a \in MarketAssets THEN MARKET_AUTH ELSE VAULT_AUTH]
    /\ packSession = [u \in Users |-> NoSession]
    /\ packSessionV2 = [u \in Users |-> NoSessionV2]
    /\ marketVault = InitializeMarketplaceVaultCall(ADMIN, 250, "collection", NoKey).vault
    /\ listing = [a \in MarketAssets |-> ListedListing(a)]
    /\ SeedIdle
    /\ last = NoCall

\* The host clock advances.
Tick ==
    /\ now < MaxTime
    /\ now' = now + 1
    /\ UNCHANGED seedVars
    /\ last' = NoCall
    /\ UNCHANGED <<vault, cards, holder, packSession, packSessionV2, marketVault, listing>>

\* ----------------------------------------------------------- deposit_card
DepositCardCall(cm, signer, a, template_id, rarity) ==
    IF vault = NoVault THEN Err("AccountNotInitialized")
    ELSE IF cm[GachaKey(a)] # NoCard THEN Err("AccountAlreadyInUse")
    ELSE IF signer # vault.admin THEN Err("Unauthorized")
    ELSE [ok |-> TRUE, err |-> "",
          record |-> [vault_state |-> GACHA_VAULT, core_asset |-> a,
                      template_id |-> template_id, rarity |-> rarity,
                      status |-> "Available", owner |-> VAULT_AUTH]]

DepositCard ==
    \E signer \in Users \cup {ADMIN}, a \in GachaAssets :
        LET r == DepositCardCall(cards, signer, a, TemplateOf(a), RarityOf(a)) IN
        /\ r.ok
        /\ cards' = [cards EXCEPT ![GachaKey(a)] = r.record]
        /\ UNCHANGED seedVars
        /\ last' = [NoCall EXCEPT !.op = "deposit_card", !.signer = signer,
                                 !.accounts = <<GachaKey(a)>>]
        /\ UNCHANGED <<now, vault, holder, packSession, packSessionV2, marketVault, listing>>

\* -------------------------------------------------------------- open_pack
\* paid_amount and expires_at as both opens store them (lib.rs 319-322,
\* 701-706).
PriceOf(v, currency) == IF currency = "Sol" THEN v.pack_price_sol ELSE v.pack_price_usdc
\* Variant of ExpiresAt that forgets the window.
ExpiresAt_NoWindow(created_at, window) == created_at
ExpiresAt(created_at, window) == created_at + window

\* Payment of the pack price (lib.rs 245-288 and 641-684); extras are the
\* accounts after the card (and asset) slots; payOk is the payment adapter's
\* answer (funds and signatures).
OpenPayment(u, currency, extras, payOk) ==
    LET price == PriceOf(vault, currency) IN
    IF price = 0 THEN Err("InvalidPrice")
    ELSE IF currency = "Sol" THEN
        IF ~payOk THEN Err("InsufficientFunds")
        ELSE [ok |-> TRUE, err |-> "", paid |-> price,
              payments |-> <<[from |-> u, to |-> TREASURY, amount |-> price, currency |-> "Sol"]>>]
    ELSE IF Len(extras) < 2 THEN Err("MissingTokenAccount")
    ELSE IF extras[1] \notin TokenAccounts \/ extras[2] \notin TokenAccounts
        THEN Err("AccountNotInitialized")
    ELSE IF vault.usdc_mint # NoKey
            /\ (TokenMintOf(extras[1]) # vault.usdc_mint \/ TokenMintOf(extras[2]) # vault.usdc_mint)
        THEN Err("MintMismatch")
    ELSE IF ~payOk THEN Err("InsufficientFunds")
    ELSE [ok |-> TRUE, err |-> "", paid |-> price,
          payments |-> <<[from |-> extras[1], to |-> extras[2], amount |-> price, currency |-> "Token"]>>]

\* The per-record validation of open_pack (lib.rs 294-310): "" when it passes.
\* Variant of OpenPackCheck without the status test.
OpenPackCheck_NoStatus(rec, template) ==
    IF rec.vault_state # GACHA_VAULT THEN "VaultMismatch"
    ELSE IF ~is_rare_or_above(rec.rarity) THEN "CardTooCommon"
    ELSE IF rec.template_id # template THEN "TemplateMismatch"
    ELSE ""

OpenPackCheck(rec, template) ==
    IF rec.vault_state # GACHA_VAULT THEN "VaultMismatch"
    ELSE IF rec.status # "Available" THEN "CardNotAvailable"
    ELSE IF ~is_rare_or_above(rec.rarity) THEN "CardTooCommon"
    ELSE IF rec.template_id # template THEN "TemplateMismatch"
    ELSE ""

\* The reservation loop of open_pack over the first rare_count accounts; each
\* record is re-read from the account data, so an account passed twice is
\* seen Reserved the second time.
RECURSIVE ReserveRare(_, _, _, _, _)
ReserveRare(cm, rem, ts, idx, u) ==
    IF idx > Len(ts) THEN [ok |-> TRUE, err |-> "", cards |-> cm]
    ELSE IF ~IsCardRecord(cm, rem[idx]) THEN Err("AccountNotInitialized")
    ELSE LET e == OpenPackCheck(cm[rem[idx]], ts[idx]) IN
         IF e # "" THEN Err(e)
         ELSE ReserveRare([cm EXCEPT ![rem[idx]].status = "Reserved", ![rem[idx]].owner = u],
                          rem, ts, idx + 1, u)

\* Mint accounts and the reward accounts a caller can pass to open_pack.
MintAuthority(m) == IF m = "mochi" THEN VAULT_AUTH ELSE "u1"
RewardAccounts(u) ==
    {[mint |-> "mochi", ata_mint |-> "mochi", ata_owner |-> u],
     [mint |-> "rogue", ata_mint |-> "rogue", ata_owner |-> u],
     [mint |-> "mochi", ata_mint |-> "mochi", ata_owner |-> ADMIN]}

\* The optional reward mint of open_pack (lib.rs 329-385).
RewardMint(u, ra) ==
    IF vault.reward_per_pack = 0 THEN [ok |-> TRUE, err |-> "", minted |-> 0]
    ELSE IF vault.mochi_mint = NoKey \/ ra.mint # vault.mochi_mint THEN Err("MintMismatch")
    ELSE IF MintAuthority(ra.mint) # VAULT_AUTH THEN Err("Unauthorized")
    ELSE IF ra.ata_mint # vault.mochi_mint THEN Err("MintMismatch")
    ELSE IF ra.ata_owner # u THEN Err("Unauthorized")
    ELSE [ok |-> TRUE, err |-> "", minted |-> vault.reward_per_pack]

\* The guard "an active session already exists" of open_pack (lib.rs 241).
OpenPackSessionBlocks(s) == s.state = "PendingDecision" /\ now <= s.expires_at

OpenPackCall(u, currency, rare_templates, rem, ra, payOk) ==
    LET rare_count == Len(rare_templates)
        s == packSessionV2[u]
    IN
    IF vault = NoVault THEN Err("AccountNotInitialized")
    ELSE IF rare_count > MAX_RARE_CARDS THEN Err("TooManyRareCards")
    ELSE IF Len(rem) < rare_count THEN Err("InvalidCardCount")
    ELSE IF OpenPackSessionBlocks(s) THEN Err("SessionExists")
    ELSE LET pay == OpenPayment(u, currency, SubSeq(rem, rare_count + 1, Len(rem)), payOk) IN
    IF ~pay.ok THEN pay
    ELSE LET res == ReserveRare(cards, rem, rare_templates, 1, u) IN
    IF ~res.ok THEN res
    ELSE LET rew == RewardMint(u, ra) IN
    IF ~rew.ok THEN rew
    ELSE [ok |-> TRUE, err |-> "", cards |-> res.cards,
          session |-> [exists |-> TRUE, user |-> u, currency |-> currency,
                       paid_amount |-> pay.paid, created_at |-> now,
                       expires_at |-> ExpiresAt(now, vault.claim_window_seconds),
                       rare_card_keys |-> SubSeq(rem, 1, rare_count),
                       rare_templates |-> rare_templates,
                       state |-> "PendingDecision"],
          payments |-> pay.payments, minted |-> rew.minted]

\* What callers hand to open_pack: a batch of CardRecord accounts, the
\* template ids they declare for it, and optionally two token accounts.
CardBatches == SeqsUpTo(CardKeys, MaxBatch)
DeclaredTemplates(cs) == [i \in 1..Len(cs) |-> cards[cs[i]].template_id]
\* The template lists a caller may declare for a batch: the records' own
\* templates, or a wrong template in one slot.
TemplateLists(cs) ==
    {DeclaredTemplates(cs)} \cup {[DeclaredTemplates(cs) EXCEPT ![i] = 9] : i \in 1..Len(cs)}

\* The accounts and adapter answers of a well-formed call (the steps of the
\* state machine are the calls that succeed; every other input returns an
\* error and commits nothing).
GoodTail(currency) == IF currency = "Sol" THEN <<>> ELSE <<"tk_user", "tk_vault">>
GoodReward(u) == [mint |-> "mochi", ata_mint |-> "mochi", ata_owner |-> u]

OpenPack(u) ==
    \E currency \in Currencies, cs \in CardBatches :
        LET r == OpenPackCall(u, currency, DeclaredTemplates(cs), cs \o GoodTail(currency),
                              GoodReward(u), TRUE) IN
        /\ r.ok
        /\ cards' = r.cards
        /\ packSessionV2' = [packSessionV2 EXCEPT ![u] = r.session]
        /\ UNCHANGED seedVars
        /\ last' = [op |-> "open_pack", signer |-> u, accounts |-> cs,
                    payments |-> r.payments,
                    moved |-> <<>>, minted |-> r.minted]
        /\ UNCHANGED <<now, vault, holder, packSession, marketVault, listing>>

\* ------------------------------------------------------ account partitions
\* split_rare_accounts (lib.rs 2410-2426) and partition_pack_accounts
\* (2428-2446): the first n accounts are CardRecords, the next n (when that
\* many are left) the Core assets, the rest extras.
SplitAccounts(accounts, n) ==
    IF Len(accounts) < n THEN Err("InvalidCardCount")
    ELSE LET rest == SubSeq(accounts, n + 1, Len(accounts)) IN
         IF Len(rest) >= n
         THEN [ok |-> TRUE, err |-> "", card_accounts |-> SubSeq(accounts, 1, n),
               asset_accounts |-> SubSeq(rest, 1, n), extras |-> SubSeq(rest, n + 1, Len(rest))]
         ELSE [ok |-> TRUE, err |-> "", card_accounts |-> SubSeq(accounts, 1, n),
               asset_accounts |-> <<>>, extras |-> rest]

\* transfer_core_asset (lib.rs 2467-2491): the Core program moves the asset
\* only when the signing authority holds it.
CanTransfer(hm, asset, authority) == asset \in DOMAIN hm /\ hm[asset] = authority

\* checked_mul / checked_div on the unsigned word.
CheckedMul(a, b) ==
    IF b # 0 /\ a > WordMax \div b THEN [ok |-> FALSE, val |-> 0] ELSE [ok |-> TRUE, val |-> a * b]

\* BuybackPayout_RoundUp is the variant that rounds the quotient up.
\* payout = amount.checked_mul(buyback_bps).and_then(checked_div(10_000))
\* (lib.rs 462-466, 944-947).
BuybackPayout_RoundUp(amount, bps) ==
    LET m == CheckedMul(amount, bps) IN
    IF m.ok THEN [ok |-> TRUE, val |-> (m.val + BPS_DENOMINATOR - 1) \div BPS_DENOMINATOR] ELSE m
BuybackPayout(amount, bps) ==
    LET m == CheckedMul(amount, bps) IN
    IF m.ok THEN [ok |-> TRUE, val |-> m.val \div BPS_DENOMINATOR] ELSE m

\* Refund of a sellback (lib.rs 473-523, 956-998) from the given source.
Refund(u, currency, payout, source, extras, payOk) ==
    IF currency = "Sol" THEN
        IF ~payOk THEN Err("InsufficientFunds")
        ELSE [ok |-> TRUE, err |-> "",
              payments |-> <<[from |-> source, to |-> u, amount |-> payout, currency |-> "Sol"]>>]
    ELSE IF Len(extras) < 2 THEN Err("MissingTokenAccount")
    ELSE IF extras[1] \notin TokenAccounts \/ extras[2] \notin TokenAccounts
        THEN Err("AccountNotInitialized")
    ELSE IF vault.usdc_mint # NoKey
            /\ (TokenMintOf(extras[1]) # vault.usdc_mint \/ TokenMintOf(extras[2]) # vault.usdc_mint)
        THEN Err("MintMismatch")
    ELSE IF ~payOk THEN Err("InsufficientFunds")
    ELSE [ok |-> TRUE, err |-> "",
          payments |-> <<[from |-> extras[2], to |-> extras[1], amount |-> payout, currency |-> "Token"]>>]

\* ----------------------------------------------------------- claim_pack_v2
\* The time guard of claim and sellback (lib.rs 400, 460, 742, 941);
\* WithinWindow_Strict is the variant that closes the window one tick early.
WithinWindow_Strict(s) == now < s.expires_at
WithinWindow(s) == now <= s.expires_at
\* The time guard of expire (lib.rs 560, 1020).
PastWindow(s) == now > s.expires_at

RECURSIVE ClaimRare(_, _, _, _, _, _, _)
ClaimRare(cm, hm, s, card_accounts, asset_accounts, idx, u) ==
    IF idx > Len(s.rare_card_keys) THEN [ok |-> TRUE, err |-> "", cards |-> cm, holder |-> hm]
    ELSE IF card_accounts[idx] # s.rare_card_keys[idx] THEN Err("CardKeyMismatch")
    ELSE IF ~IsCardRecord(cm, card_accounts[idx]) THEN Err("AccountNotInitialized")
    ELSE IF cm[card_accounts[idx]].status # "Reserved" THEN Err("CardNotReserved")
    ELSE IF cm[card_accounts[idx]].owner # u THEN Err("Unauthorized")
    ELSE IF ~CanTransfer(hm, asset_accounts[idx], VAULT_AUTH) THEN Err("CoreCpiError")
    ELSE ClaimRare([cm EXCEPT ![card_accounts[idx]].status = "UserOwned",
                               ![card_accounts[idx]].owner = u],
                   [hm EXCEPT ![asset_accounts[idx]] = u],
                   s, card_accounts, asset_accounts, idx + 1, u)

ClaimPackV2Call(u, rem) ==
    LET s == packSessionV2[u] IN
    IF ~s.exists THEN Err("AccountNotInitialized")
    ELSE IF s.state # "PendingDecision" THEN Err("InvalidSessionState")
    ELSE IF ~WithinWindow(s) THEN Err("SessionExpired")
    ELSE LET sp == SplitAccounts(rem, Len(s.rare_card_keys)) IN
    IF ~sp.ok THEN sp
    ELSE IF Len(sp.asset_accounts) # Len(s.rare_card_keys) THEN Err("InvalidCardCount")
    ELSE LET res == ClaimRare(cards, holder, s, sp.card_accounts, sp.asset_accounts, 1, u) IN
    IF ~res.ok THEN res
    ELSE [ok |-> TRUE, err |-> "", cards |-> res.cards, holder |-> res.holder,
          session |-> [s EXCEPT !.state = "Accepted"],
          moved |-> sp.asset_accounts]

\* -------------------------------------------------------- sellback_pack_v2
RECURSIVE ReleaseRare(_, _, _, _, _, _)
ReleaseRare(cm, s, card_accounts, idx, u, checkOwner) ==
    IF idx > Len(card_accounts) THEN [ok |-> TRUE, err |-> "", cards |-> cm]
    ELSE IF card_accounts[idx] # s.rare_card_keys[idx] THEN Err("CardKeyMismatch")
    ELSE IF ~IsCardRecord(cm, card_accounts[idx]) THEN Err("AccountNotInitialized")
    ELSE IF cm[card_accounts[idx]].status # "Reserved" THEN Err("CardNotReserved")
    ELSE IF checkOwner /\ cm[card_accounts[idx]].owner # u THEN Err("Unauthorized")
    ELSE ReleaseRare([cm EXCEPT ![card_accounts[idx]].status = "Available",
                                 ![card_accounts[idx]].owner = VAULT_AUTH],
                     s, card_accounts, idx + 1, u, checkOwner)

SellbackPackV2Call(u, rem, payOk) ==
    LET s == packSessionV2[u] IN
    IF ~s.exists THEN Err("AccountNotInitialized")
    ELSE IF s.state # "PendingDecision" THEN Err("InvalidSessionState")
    ELSE IF ~WithinWindow(s) THEN Err("SessionExpired")
    ELSE LET payout == BuybackPayout(s.paid_amount, vault.buyback_bps) IN
    IF ~payout.ok THEN Err("MathOverflow")
    ELSE LET sp == SplitAccounts(rem, Len(s.rare_card_keys)) IN
    IF ~sp.ok THEN sp
    ELSE LET pay == Refund(u, s.currency, payout.val, VAULT_AUTH, sp.extras, payOk) IN
    IF ~pay.ok THEN pay
    ELSE LET res == ReleaseRare(cards, s, sp.card_accounts, 1, u, TRUE) IN
    IF ~res.ok THEN res
    ELSE [ok |-> TRUE, err |-> "", cards |-> res.cards,
          session |-> [s EXCEPT !.state = "Rejected"], payments |-> pay.payments]

\* ------------------------------------------------------- expire_session_v2
ExpireSessionV2Call(u, rem) ==
    LET s == packSessionV2[u] IN
    IF ~s.exists THEN Err("AccountNotInitialized")
    ELSE IF s.state # "PendingDecision" THEN Err("InvalidSessionState")
    ELSE IF ~PastWindow(s) THEN Err("SessionNotExpired")
    ELSE LET sp == SplitAccounts(rem, Len(s.rare_card_keys)) IN
    IF ~sp.ok THEN sp
    ELSE LET res == ReleaseRare(cards, s, sp.card_accounts, 1, u, FALSE) IN
    IF ~res.ok THEN res
    ELSE [ok |-> TRUE, err |-> "", cards |-> res.cards,
          session |-> [s EXCEPT !.state = "Expired"]]

\* The Core assets of a list of CardRecord accounts, and the asset lists a
\* caller can pass beside them: their own assets, in order or rotated.
AssetsOf(cs) == [i \in 1..Len(cs) |-> cards[cs[i]].core_asset]
Rotate(q) == IF Len(q) < 2 THEN q ELSE Append(Tail(q), Head(q))
AssetLists(cs) == {AssetsOf(cs), Rotate(AssetsOf(cs))}

\* Any asset account in each slot: the handlers take the asset accounts
\* from remaining_accounts as the caller orders them.
AnyAssetLists(cs) == [1..Len(cs) -> GachaAssets]

ClaimPackV2Of(u, lists) ==
    \E assets \in lists :
        LET r == ClaimPackV2Call(u, packSessionV2[u].rare_card_keys \o assets) IN
        /\ r.ok
        /\ cards' = r.cards
        /\ holder' = r.holder
        /\ packSessionV2' = [packSessionV2 EXCEPT ![u] = r.session]
        /\ UNCHANGED seedVars
        /\ last' = [op |-> "claim_pack_v2", signer |-> u, accounts |-> packSessionV2[u].rare_card_keys,
                    payments |-> <<>>,
                    moved |-> r.moved, minted |-> 0]
        /\ UNCHANGED <<now, vault, packSession, marketVault, listing>>

ClaimPackV2(u) == ClaimPackV2Of(u, AssetLists(packSessionV2[u].rare_card_keys))

SellbackPackV2(u) ==
        LET s == packSessionV2[u]
            r == SellbackPackV2Call(u, s.rare_card_keys \o AssetsOf(s.rare_card_keys)
                                         \o GoodTail(s.currency), TRUE) IN
        /\ r.ok
        /\ cards' = r.cards
        /\ packSessionV2' = [packSessionV2 EXCEPT ![u] = r.session]
        /\ UNCHANGED seedVars
        /\ last' = [op |-> "sellback_pack_v2", signer |-> u, accounts |-> s.rare_card_keys,
                    payments |-> r.payments,
                    moved |-> <<>>, minted |-> 0]
        /\ UNCHANGED <<now, vault, holder, packSession, marketVault, listing>>

ExpireSessionV2(u) ==
        LET r == ExpireSessionV2Call(u, packSessionV2[u].rare_card_keys) IN
        /\ r.ok
        /\ cards' = r.cards
        /\ packSessionV2' = [packSessionV2 EXCEPT ![u] = r.session]
        /\ UNCHANGED seedVars
        /\ last' = [op |-> "expire_session_v2", signer |-> u, accounts |-> packSessionV2[u].rare_card_keys,
                    payments |-> <<>>,
                    moved |-> <<>>, minted |-> 0]
        /\ UNCHANGED <<now, vault, holder, packSession, marketVault, listing>>

\* ---------------------------------------------------------- open_pack_start
\* The reserve loop of open_pack_start (lib.rs 711-730).
RECURSIVE ReservePack(_, _, _, _)
ReservePack(cm, card_accounts, idx, u) ==
    IF idx > Len(card_accounts) THEN [ok |-> TRUE, err |-> "", cards |-> cm]
    ELSE IF ~IsCardRecord(cm, card_accounts[idx]) THEN Err("AccountNotInitialized")
    ELSE IF cm[card_accounts[idx]].vault_state # GACHA_VAULT THEN Err("VaultMismatch")
    ELSE IF cm[card_accounts[idx]].status # "Available" THEN Err("CardNotAvailable")
    ELSE ReservePack([cm EXCEPT ![card_accounts[idx]].status = "Reserved",
                                 ![card_accounts[idx]].owner = u],
                     card_accounts, idx + 1, u)

\* The state test of open_pack_start (lib.rs 689-698).
OpenPackStartStateOk(state) == state \in {"Uninitialized", "Accepted", "Rejected", "Expired"}

\* OpenPackStart declares the session account `init` (lib.rs 1809-1816): the
\* call is rejected before the handler runs when the account already exists.
\* The stored price list has room for PACK_CARD_COUNT entries.
OpenPackStartCall(u, currency, rarity_prices, rem, payOk) ==
    IF vault = NoVault THEN Err("AccountNotInitialized")
    ELSE IF packSession[u].exists THEN Err("AccountAlreadyInUse")
    ELSE LET sp == SplitAccounts(rem, PACK_CARD_COUNT) IN
    IF ~sp.ok THEN sp
    ELSE LET pay == OpenPayment(u, currency, sp.extras, payOk) IN
    IF ~pay.ok THEN pay
    ELSE IF ~OpenPackStartStateOk("Uninitialized") THEN Err("SessionExists")
    ELSE LET res == ReservePack(cards, sp.card_accounts, 1, u) IN
    IF ~res.ok THEN res
    ELSE IF Len(rarity_prices) > PACK_CARD_COUNT THEN Err("AccountDidNotSerialize")
    ELSE [ok |-> TRUE, err |-> "", cards |-> res.cards,
          session |-> [exists |-> TRUE, user |-> u, currency |-> currency,
                       paid_amount |-> pay.paid, created_at |-> now,
                       expires_at |-> ExpiresAt(now, vault.claim_window_seconds),
                       card_record_keys |-> sp.card_accounts,
                       state |-> "PendingDecision", rarity_prices |-> rarity_prices],
          payments |-> pay.payments]

\* ----------------------------------------------------------------- claim_pack
\* The claim loop shared by claim_pack, claim_pack_batch and
\* claim_pack_batch3 (lib.rs 761-795, 821-850, 870-899).
RECURSIVE ClaimCards(_, _, _, _, _, _)
ClaimCards(cm, hm, card_accounts, asset_accounts, idx, u) ==
    IF idx > Len(card_accounts) THEN [ok |-> TRUE, err |-> "", cards |-> cm, holder |-> hm]
    ELSE IF ~IsCardRecord(cm, card_accounts[idx]) THEN Err("AccountNotInitialized")
    ELSE IF cm[card_accounts[idx]].status # "Reserved" THEN Err("CardNotReserved")
    ELSE IF cm[card_accounts[idx]].owner # u THEN Err("Unauthorized")
    ELSE IF ~CanTransfer(hm, asset_accounts[idx], VAULT_AUTH) THEN Err("CoreCpiError")
    ELSE ClaimCards([cm EXCEPT ![card_accounts[idx]].status = "UserOwned",
                                ![card_accounts[idx]].owner = u],
                    [hm EXCEPT ![asset_accounts[idx]] = u],
                    card_accounts, asset_accounts, idx + 1, u)

\* The defensive truncation of the price list (lib.rs 758-760).
Truncate(q, n) == IF Len(q) > n THEN SubSeq(q, 1, n) ELSE q

ClaimPackCall(u, rem) ==
    LET s == packSession[u] IN
    IF ~s.exists THEN Err("AccountNotInitialized")
    ELSE IF s.state # "PendingDecision" THEN Err("InvalidSessionState")
    ELSE IF ~WithinWindow(s) THEN Err("SessionExpired")
    ELSE LET sp == SplitAccounts(rem, PACK_CARD_COUNT) IN
    IF ~sp.ok THEN sp
    ELSE IF Len(sp.asset_accounts) # PACK_CARD_COUNT THEN Err("InvalidCardCount")
    ELSE LET res == ClaimCards(cards, holder, sp.card_accounts, sp.asset_accounts, 1, u) IN
    IF ~res.ok THEN res
    ELSE [ok |-> TRUE, err |-> "", cards |-> res.cards, holder |-> res.holder,
          session |-> [s EXCEPT !.state = "Accepted",
                                !.rarity_prices = Truncate(s.rarity_prices, PACK_CARD_COUNT)],
          moved |-> sp.asset_accounts]

\* -------------------------------------------------------------- sellback_pack
RECURSIVE SumPrices(_)
SumPrices(q) == IF q = <<>> THEN 0 ELSE Head(q) + SumPrices(Tail(q))

\* rarity_prices.iter().copied().sum() (lib.rs 943) adds in the unsigned word
\* without a checked operation: a sum beyond the word aborts the program
\* when the build has overflow checks on, and wraps when it has them off.
SumU64(q, overflow_checks) ==
    IF SumPrices(q) <= WordMax THEN [ok |-> TRUE, val |-> SumPrices(q)]
    ELSE IF overflow_checks THEN [ok |-> FALSE, val |-> 0]
    ELSE [ok |-> TRUE, val |-> SumPrices(q) % (WordMax + 1)]

\* The card loops of sellback_pack, expire_session and admin_force_expire
\* (lib.rs 1000-1005, 1024-1028, 1050-1054) load each supplied CardRecord and
\* change a local copy that is never written back: the call fails when an
\* account is not a CardRecord and otherwise leaves the records as stored.
LoadOnly(cm, card_accounts) ==
    IF \E i \in 1..Len(card_accounts) : ~IsCardRecord(cm, card_accounts[i])
    THEN Err("AccountNotInitialized")
    ELSE [ok |-> TRUE, err |-> "", cards |-> cm]

SellbackPackCall(u, treasury, rem, payOk, overflow_checks) ==
    LET s == packSession[u] IN
    IF ~s.exists THEN Err("AccountNotInitialized")
    ELSE IF s.state # "PendingDecision" THEN Err("InvalidSessionState")
    ELSE IF ~WithinWindow(s) THEN Err("SessionExpired")
    ELSE LET total_value == SumU64(s.rarity_prices, overflow_checks) IN
    IF ~total_value.ok THEN Err("ProgramFailedToComplete")
    ELSE LET payout == BuybackPayout(total_value.val, vault.buyback_bps) IN
    IF ~payout.ok THEN Err("MathOverflow")
    ELSE LET sp == SplitAccounts(rem, PACK_CARD_COUNT) IN
    IF ~sp.ok THEN sp
    ELSE IF Len(sp.asset_accounts) # PACK_CARD_COUNT THEN Err("InvalidCardCount")
    ELSE LET pay == Refund(u, s.currency, payout.val, treasury, sp.extras, payOk) IN
    IF ~pay.ok THEN pay
    ELSE LET res == LoadOnly(cards, sp.card_accounts) IN
    IF ~res.ok THEN res
    ELSE [ok |-> TRUE, err |-> "", cards |-> res.cards,
          session |-> [s EXCEPT !.state = "Rejected"], payments |-> pay.payments]

\* ------------------------------------------------------------- expire_session
ExpireSessionCall(u, rem) ==
    LET s == packSession[u] IN
    IF ~s.exists THEN Err("AccountNotInitialized")
    ELSE IF s.state # "PendingDecision" THEN Err("InvalidSessionState")
    ELSE IF ~PastWindow(s) THEN Err("SessionNotExpired")
    ELSE LET sp == SplitAccounts(rem, PACK_CARD_COUNT) IN
    IF ~sp.ok THEN sp
    ELSE LET res == LoadOnly(cards, sp.card_accounts) IN
    IF ~res.ok THEN res
    ELSE [ok |-> TRUE, err |-> "", cards |-> res.cards,
          session |-> [s EXCEPT !.state = "Expired"]]

\* --------------------------------------------------------- user_reset_session
\* lib.rs 1095-1114; the account is closed to the user on exit (lib.rs
\* UserResetSession, `close = user`), so the session PDA no longer exists.
UserResetSessionCall(u, rem) ==
    LET s == packSession[u] IN
    IF ~s.exists THEN Err("AccountNotInitialized")
    ELSE IF s.state = "PendingDecision" THEN Err("InvalidSessionState")
    ELSE [ok |-> TRUE, err |-> "", cards |-> cards, session |-> NoSession]

\* What callers hand to the full-pack instructions.
PackBatches == [1..PACK_CARD_COUNT -> CardKeys]
PriceLists == {<<1>>, <<100, 201>>}

\* open_pack_start called with one of the given price lists.
OpenPackStartWith(u, lists) ==
    \E currency \in Currencies, cs \in PackBatches, prices \in lists :
        LET r == OpenPackStartCall(u, currency, prices, cs \o GoodTail(currency), TRUE) IN
        /\ r.ok
        /\ cards' = r.cards
        /\ packSession' = [packSession EXCEPT ![u] = r.session]
        /\ UNCHANGED seedVars
        /\ last' = [op |-> "open_pack_start", signer |-> u, accounts |-> cs,
                    payments |-> r.payments,
                    moved |-> <<>>, minted |-> 0]
        /\ UNCHANGED <<now, vault, holder, packSessionV2, marketVault, listing>>

OpenPackStart(u) == OpenPackStartWith(u, PriceLists)

ClaimPack(u) ==
    \E cs \in PackBatches :
    \E assets \in AssetLists(cs) :
        LET r == ClaimPackCall(u, cs \o assets) IN
        /\ r.ok
        /\ cards' = r.cards
        /\ holder' = r.holder
        /\ packSession' = [packSession EXCEPT ![u] = r.session]
        /\ UNCHANGED seedVars
        /\ last' = [op |-> "claim_pack", signer |-> u, accounts |-> cs,
                    payments |-> <<>>,
                    moved |-> r.moved, minted |-> 0]
        /\ UNCHANGED <<now, vault, packSessionV2, marketVault, listing>>

SellbackPack(u) ==
    \E overflow_checks \in BOOLEAN :
        LET s == packSession[u]
            r == SellbackPackCall(u, TREASURY, s.card_record_keys \o AssetsOf(s.card_record_keys)
                                       \o GoodTail(s.currency), TRUE, overflow_checks) IN
        /\ r.ok
        /\ cards' = r.cards
        /\ packSession' = [packSession EXCEPT ![u] = r.session]
        /\ UNCHANGED seedVars
        /\ last' = [op |-> "sellback_pack", signer |-> u, accounts |-> s.card_record_keys,
                    payments |-> r.payments,
                    moved |-> <<>>, minted |-> 0]
        /\ UNCHANGED <<now, vault, holder, packSessionV2, marketVault, listing>>

ExpireSession(u) ==
        LET r == ExpireSessionCall(u, packSession[u].card_record_keys) IN
        /\ r.ok
        /\ cards' = r.cards
        /\ packSession' = [packSession EXCEPT ![u] = r.session]
        /\ UNCHANGED seedVars
        /\ last' = [op |-> "expire_session", signer |-> u, accounts |-> packSession[u].card_record_keys,
                    payments |-> <<>>,
                    moved |-> <<>>, minted |-> 0]
        /\ UNCHANGED <<now, vault, holder, packSessionV2, marketVault, listing>>

UserResetSession(u) ==
        LET r == UserResetSessionCall(u, packSession[u].card_record_keys) IN
        /\ r.ok
        /\ cards' = r.cards
        /\ packSession' = [packSession EXCEPT ![u] = r.session]
        /\ UNCHANGED seedVars
        /\ last' = [op |-> "user_reset_session", signer |-> u, accounts |-> packSession[u].card_record_keys,
                    payments |-> <<>>,
                    moved |-> <<>>, minted |-> 0]
        /\ UNCHANGED <<now, vault, holder, packSessionV2, marketVault, listing>>

\* ------------------------------------------------ accounts of the resolutions
\* ResolvePackV2, ResolvePack and FinalizeClaim (lib.rs 1702-1709, 1830-1837,
\* 1938-1945): `user` is a Signer and pack_session is the PDA seeded with
\* user.key(), so the session a call works on is the signer's own.
ResolveAccounts(signer, user, session_of) ==
    IF user # signer THEN Err("AccountNotSigner")
    ELSE IF session_of # user THEN Err("ConstraintSeeds")
    ELSE [ok |-> TRUE, err |-> ""]

\* expire_session_v2 / expire_session sent by `signer`, naming `user` in the
\* user slot and the session PDA of `session_of` in the pack_session slot.
ExpireSessionV2As(signer, user, session_of, rem) ==
    LET a == ResolveAccounts(signer, user, session_of) IN
    IF ~a.ok THEN a ELSE ExpireSessionV2Call(user, rem)

ExpireSessionAs(signer, user, session_of, rem) ==
    LET a == ResolveAccounts(signer, user, session_of) IN
    IF ~a.ok THEN a ELSE ExpireSessionCall(user, rem)

\* ------------------------------------------------------------ batched claims
\* partition_half_accounts (lib.rs 2449-2465)
partition_half_accounts(accounts) ==
    IF Len(accounts) < 2 THEN Err("InvalidCardCount")
    ELSE LET half == Len(accounts) \div 2 IN
         IF ~(half > 0 /\ half * 2 = Len(accounts)) THEN Err("InvalidCardCount")
         ELSE [ok |-> TRUE, err |-> "", card_accounts |-> SubSeq(accounts, 1, half),
               asset_accounts |-> SubSeq(accounts, half + 1, 2 * half),
               extras |-> <<>>]

\* claim_pack_batch (lib.rs 803-853): one or two cards, session left pending.
ClaimPackBatchCall(u, rem) ==
    LET s == packSession[u] IN
    IF ~s.exists THEN Err("AccountNotInitialized")
    ELSE IF s.state # "PendingDecision" THEN Err("InvalidSessionState")
    ELSE IF ~WithinWindow(s) THEN Err("SessionExpired")
    ELSE LET sp == partition_half_accounts(rem) IN
    IF ~sp.ok THEN sp
    ELSE IF ~(Len(sp.card_accounts) > 0 /\ Len(sp.card_accounts) <= 2)
         THEN Err("InvalidCardCount")
    ELSE LET res == ClaimCards(cards, holder, sp.card_accounts, sp.asset_accounts, 1, u) IN
    IF ~res.ok THEN res
    ELSE [ok |-> TRUE, err |-> "", cards |-> res.cards, holder |-> res.holder,
          session |-> s, moved |-> sp.asset_accounts]

\* claim_pack_batch3 (lib.rs 856-901): exactly three cards.
ClaimPackBatch3Call(u, rem) ==
    LET s == packSession[u] IN
    IF ~s.exists THEN Err("AccountNotInitialized")
    ELSE IF s.state # "PendingDecision" THEN Err("InvalidSessionState")
    ELSE IF ~WithinWindow(s) THEN Err("SessionExpired")
    ELSE LET sp == partition_half_accounts(rem) IN
    IF ~sp.ok THEN sp
    ELSE IF Len(sp.card_accounts) # 3 THEN Err("InvalidCardCount")
    ELSE LET res == ClaimCards(cards, holder, sp.card_accounts, sp.asset_accounts, 1, u) IN
    IF ~res.ok THEN res
    ELSE [ok |-> TRUE, err |-> "", cards |-> res.cards, holder |-> res.holder,
          session |-> s, moved |-> sp.asset_accounts]

\* The verification loop of finalize_claim (lib.rs 915-926) over whatever
\* accounts the caller supplies.
RECURSIVE VerifyOwned(_, _, _)
VerifyOwned(card_accounts, idx, u) ==
    IF idx > Len(card_accounts) THEN [ok |-> TRUE, err |-> ""]
    ELSE IF ~IsCardRecord(cards, card_accounts[idx]) THEN Err("AccountNotInitialized")
    ELSE IF cards[card_accounts[idx]].status # "UserOwned" THEN Err("CardNotReserved")
    ELSE IF cards[card_accounts[idx]].owner # u THEN Err("Unauthorized")
    ELSE VerifyOwned(card_accounts, idx + 1, u)

\* finalize_claim (lib.rs 905-929)
FinalizeClaimCall(u, rem) ==
    LET s == packSession[u] IN
    IF ~s.exists THEN Err("AccountNotInitialized")
    ELSE IF s.state # "PendingDecision" THEN Err("InvalidSessionState")
    ELSE IF ~WithinWindow(s) THEN Err("SessionExpired")
    ELSE LET v == VerifyOwned(rem, 1, u) IN
    IF ~v.ok THEN v
    ELSE [ok |-> TRUE, err |-> "", session |-> [s EXCEPT !.state = "Accepted"]]

\* The card lists handed to the batched claims and to finalize_claim: any
\* list of up to three distinct CardRecords of the gacha vault.
BatchLists ==
    {q \in SeqsUpTo(GachaKeys, 3) : \A i, j \in 1..Len(q) : i # j => q[i] # q[j]}

ClaimPackBatch(u) ==
    \E cs \in BatchLists :
        LET r == ClaimPackBatchCall(u, cs \o AssetsOf(cs)) IN
        /\ r.ok
        /\ cards' = r.cards
        /\ holder' = r.holder
        /\ UNCHANGED seedVars
        /\ last' = [op |-> "claim_pack_batch", signer |-> u, accounts |-> cs,
                    payments |-> <<>>, moved |-> r.moved, minted |-> 0]
        /\ UNCHANGED <<now, vault, packSession, packSessionV2, marketVault, listing>>

ClaimPackBatch3(u) ==
    \E cs \in BatchLists :
        LET r == ClaimPackBatch3Call(u, cs \o AssetsOf(cs)) IN
        /\ r.ok
        /\ cards' = r.cards
        /\ holder' = r.holder
        /\ UNCHANGED seedVars
        /\ last' = [op |-> "claim_pack_batch3", signer |-> u, accounts |-> cs,
                    payments |-> <<>>, moved |-> r.moved, minted |-> 0]
        /\ UNCHANGED <<now, vault, packSession, packSessionV2, marketVault, listing>>

FinalizeClaim(u) ==
    \E cs \in BatchLists :
        LET r == FinalizeClaimCall(u, cs) IN
        /\ r.ok
        /\ packSession' = [packSession EXCEPT ![u] = r.session]
        /\ UNCHANGED seedVars
        /\ last' = [op |-> "finalize_claim", signer |-> u, accounts |-> cs,
                    payments |-> <<>>, moved |-> <<>>, minted |-> 0]
        /\ UNCHANGED <<now, vault, cards, holder, packSessionV2, marketVault, listing>>

\* ------------------------------------------------- admin close / reset / free
\* The best-effort loop of admin_force_close_v2 and admin_reset_cards (lib.rs
\* 596-604, 1658-1668): an account that is no CardRecord, or a record of
\* another vault, is skipped; a record of this vault is written back as
\* Available with owner = vault authority.
RECURSIVE FreeCards(_, _, _)
FreeCards(cm, card_accounts, idx) ==
    IF idx > Len(card_accounts) THEN cm
    ELSE IF IsCardRecord(cm, card_accounts[idx])
            /\ cm[card_accounts[idx]].vault_state = GACHA_VAULT
    THEN FreeCards([cm EXCEPT ![card_accounts[idx]].status = "Available",
                              ![card_accounts[idx]].owner = VAULT_AUTH],
                   card_accounts, idx + 1)
    ELSE FreeCards(cm, card_accounts, idx + 1)

\* The same loop in admin_reset_session and admin_force_close_session (lib.rs
\* 1070-1077, 1626-1633): the matching record is changed in a local copy that
\* is never written back, so the stored records stay as they are.
FreeCardsLocal(cm, card_accounts) == cm

\* admin_force_close_v2 (lib.rs 585-616); the session account stays alive.
AdminForceCloseV2Call(signer, u, rem) ==
    LET s == packSessionV2[u] IN
    IF ~s.exists THEN Err("AccountNotInitialized")
    ELSE IF signer # vault.admin THEN Err("Unauthorized")
    ELSE LET sp == SplitAccounts(rem, Len(s.rare_card_keys)) IN
    IF ~sp.ok THEN sp
    ELSE [ok |-> TRUE, err |-> "", cards |-> FreeCards(cards, sp.card_accounts, 1),
          session |-> [s EXCEPT !.state = "Uninitialized", !.paid_amount = 0,
                                !.created_at = 0, !.expires_at = 0,
                                !.currency = "Sol", !.rare_card_keys = <<>>,
                                !.rare_templates = <<>>]]

\* admin_force_close_session (lib.rs 1615-1646); the zeroed account is closed
\* to the admin on exit (AdminForceClose, lib.rs 1897-1903).
AdminForceCloseSessionCall(signer, u, rem) ==
    LET s == packSession[u] IN
    IF ~s.exists THEN Err("AccountNotInitialized")
    ELSE IF signer # vault.admin THEN Err("Unauthorized")
    ELSE [ok |-> TRUE, err |-> "", cards |-> FreeCardsLocal(cards, rem),
          session |-> NoSession]

\* admin_reset_session (lib.rs 1060-1093); the account is closed to the user
\* on exit (AdminResetSession, lib.rs 1877-1883).
AdminResetSessionCall(signer, u, rem) ==
    LET s == packSession[u] IN
    IF ~s.exists THEN Err("AccountNotInitialized")
    ELSE IF signer # vault.admin THEN Err("Unauthorized")
    ELSE IF s.state = "PendingDecision" THEN Err("InvalidSessionState")
    ELSE [ok |-> TRUE, err |-> "", cards |-> FreeCardsLocal(cards, rem),
          session |-> NoSession]

\* admin_reset_cards (lib.rs 1648-1670)
AdminResetCardsCall(signer, rem) ==
    IF vault = NoVault THEN Err("AccountNotInitialized")
    ELSE IF signer # vault.admin THEN Err("Unauthorized")
    ELSE [ok |-> TRUE, err |-> "", cards |-> FreeCards(cards, rem, 1)]

\* The account lists the admin hands to these operations: records of the
\* gacha vault, alone or beside the record of the marketplace vault.
AdminLists == {<<>>, <<"c1">>, <<"c2", "c1">>, <<"c1", "m1">>, <<"m1", "c2">>}

AdminForceCloseV2 ==
    \E u \in Players, cs \in AdminLists :
        LET r == AdminForceCloseV2Call(ADMIN, u, cs) IN
        /\ r.ok
        /\ cards' = r.cards
        /\ packSessionV2' = [packSessionV2 EXCEPT ![u] = r.session]
        /\ UNCHANGED seedVars
        /\ last' = [op |-> "admin_force_close_v2", signer |-> ADMIN,
                    accounts |-> SubSeq(cs, 1, Len(packSessionV2[u].rare_card_keys)),
                    payments |-> <<>>, moved |-> <<>>, minted |-> 0]
        /\ UNCHANGED <<now, vault, holder, packSession, marketVault, listing>>

AdminForceCloseSession ==
    \E u \in Players, cs \in AdminLists :
        LET r == AdminForceCloseSessionCall(ADMIN, u, cs) IN
        /\ r.ok
        /\ cards' = r.cards
        /\ packSession' = [packSession EXCEPT ![u] = r.session]
        /\ UNCHANGED seedVars
        /\ last' = [op |-> "admin_force_close_session", signer |-> ADMIN,
                    accounts |-> cs,
                    payments |-> <<>>, moved |-> <<>>, minted |-> 0]
        /\ UNCHANGED <<now, vault, holder, packSessionV2, marketVault, listing>>

AdminResetSession ==
    \E u \in Players, cs \in AdminLists :
        LET r == AdminResetSessionCall(ADMIN, u, cs) IN
        /\ r.ok
        /\ cards' = r.cards
        /\ packSession' = [packSession EXCEPT ![u] = r.session]
        /\ UNCHANGED seedVars
        /\ last' = [op |-> "admin_reset_session", signer |-> ADMIN,
                    accounts |-> cs,
                    payments |-> <<>>, moved |-> <<>>, minted |-> 0]
        /\ UNCHANGED <<now, vault, holder, packSessionV2, marketVault, listing>>

AdminResetCards ==
    \E cs \in AdminLists :
        LET r == AdminResetCardsCall(ADMIN, cs) IN
        /\ r.ok
        /\ cards' = r.cards
        /\ UNCHANGED seedVars
        /\ last' = [op |-> "admin_reset_cards", signer |-> ADMIN,
                    accounts |-> cs,
                    payments |-> <<>>, moved |-> <<>>, minted |-> 0]
        /\ UNCHANGED <<now, vault, holder, packSession, packSessionV2,
                       marketVault, listing>>

\* ------------------------------------------------------------------ list_card
\* CardRecord PDA [CARD_RECORD_SEED, marketplace vault_state, core_asset]
MarketKey(a) == "m1"

\* The status requirement of list_card (lib.rs 1160-1163).
\* ListableStatus_Any is the variant that accepts every status.
ListableStatus_Any(status) == TRUE
ListableStatus(status) == status = "UserOwned" \/ status = "Available"

\* RecoverRecord_Default is the variant of RecoverRecord (cancel_listing)
\* that always rebuilds the default record.
RecoverRecord_Default(cm, k, l) ==
    [vault_state |-> MARKET_VAULT, core_asset |-> l.core_asset, template_id |-> 0,
     rarity |-> "Common", status |-> "Reserved", owner |-> MARKET_AUTH]

\* list_card (lib.rs 1116-1189). card_record and listing are init_if_needed
\* PDAs of the asset (ListCard, lib.rs 1957-1974): an account that exists is
\* loaded as a CardRecord, and the call is refused when its bytes do not decode.
ListCardCall(seller, a, price_lamports, currency_mint, template_id, rarity) ==
    LET k == MarketKey(a)
        stored == cards[k]
        is_uninitialized == stored.vault_state = NoKey
        record == IF is_uninitialized
                  THEN [vault_state |-> MARKET_VAULT, core_asset |-> a,
                        template_id |-> template_id, rarity |-> rarity,
                        status |-> "UserOwned", owner |-> seller]
                  ELSE stored
    IN
    IF stored # NoCard /\ ~IsCardRecord(cards, k) THEN Err("AccountDidNotDeserialize")
    ELSE IF ~is_uninitialized /\ record.vault_state # MARKET_VAULT THEN Err("VaultMismatch")
    ELSE IF ~is_uninitialized /\ record.core_asset # a THEN Err("AssetMismatch")
    ELSE IF ~is_uninitialized /\ record.template_id # template_id THEN Err("TemplateMismatch")
    ELSE IF ~is_uninitialized /\ record.rarity # rarity THEN Err("RarityMismatch")
    ELSE IF ~(record.owner = seller \/ record.owner = MARKET_AUTH) THEN Err("Unauthorized")
    ELSE IF ~ListableStatus(record.status) THEN Err("CardNotAvailable")
    ELSE IF record.owner # MARKET_AUTH /\ ~CanTransfer(holder, a, seller)
         THEN Err("CoreCpiError")
    ELSE [ok |-> TRUE, err |-> "",
          cards |-> [cards EXCEPT ![k] = [record EXCEPT !.status = "Reserved",
                                                        !.owner = MARKET_AUTH]],
          holder |-> IF record.owner # MARKET_AUTH
                     THEN [holder EXCEPT ![a] = MARKET_AUTH] ELSE holder,
          moved |-> IF record.owner # MARKET_AUTH THEN <<a>> ELSE <<>>,
          listing |-> [exists |-> TRUE, vault_state |-> MARKET_VAULT,
                       seller |-> seller, core_asset |-> record.core_asset,
                       price_lamports |-> price_lamports,
                       currency_mint |-> currency_mint, status |-> "Active"]]

\* ------------------------------------------------------------- cancel_listing
\* The record cancel_listing works on (lib.rs 1204-1218): the stored bytes
\* when they decode as a CardRecord, else a rebuilt default.
RecoverRecord(cm, k, l) ==
    IF IsCardRecord(cm, k) THEN cm[k]
    ELSE [vault_state |-> MARKET_VAULT, core_asset |-> l.core_asset, template_id |-> 0,
          rarity |-> "Common", status |-> "Reserved", owner |-> MARKET_AUTH]

\* The two requirements on the listing (lib.rs 1193-1201): "" when they pass.
\* CancelCheck_AnySigner is the variant without the seller test.
CancelCheck_AnySigner(l, signer) ==
    IF l.status # "Active" THEN "InvalidListingState" ELSE ""
CancelCheck(l, signer) ==
    IF l.status # "Active" THEN "InvalidListingState"
    ELSE IF l.seller # signer THEN "Unauthorized"
    ELSE ""

\* cancel_listing (lib.rs 1191-1245)
CancelListingCall(signer, a) ==
    LET l == listing[a]
        k == MarketKey(a) IN
    IF ~l.exists THEN Err("AccountNotInitialized")
    ELSE IF CancelCheck(l, signer) # "" THEN Err(CancelCheck(l, signer))
    ELSE LET record == [RecoverRecord(cards, k, l) EXCEPT
                            !.vault_state = MARKET_VAULT, !.core_asset = l.core_asset,
                            !.status = "UserOwned", !.owner = signer] IN
    IF ~CanTransfer(holder, a, MARKET_AUTH) THEN Err("CoreCpiError")
    ELSE [ok |-> TRUE, err |-> "",
          cards |-> [cards EXCEPT ![k] = record],
          holder |-> [holder EXCEPT ![a] = signer],
          moved |-> <<a>>,
          listing |-> [l EXCEPT !.status = "Cancelled"]]

\* --------------------------------------------------------------- fill_listing
\* fee = price.checked_mul(fee_bps).and_then(checked_div(10_000)) and
\* seller_amount = price.checked_sub(fee) (lib.rs 1254-1260).
\* ListingFee_RoundUp is the variant that rounds the fee up.
ListingFee_RoundUp(price, fee_bps) ==
    LET m == CheckedMul(price, fee_bps) IN
    IF m.ok THEN [ok |-> TRUE, val |-> (m.val + BPS_DENOMINATOR - 1) \div BPS_DENOMINATOR] ELSE m
ListingFee(price, fee_bps) ==
    LET m == CheckedMul(price, fee_bps) IN
    IF m.ok THEN [ok |-> TRUE, val |-> m.val \div BPS_DENOMINATOR] ELSE m

\* The listing requirement of fill_listing (lib.rs 1248-1251).
\* FillCheck_AnyStatus is the variant without it.
FillCheck_AnyStatus(l) == ""
FillCheck(l) == IF l.status # "Active" THEN "InvalidListingState" ELSE ""

\* fill_listing (lib.rs 1247-1308). seller and vault_treasury are any system
\* accounts and card_record is any CardRecord account the buyer passes
\* (FillListing, lib.rs 2010-2015, 2024-2025); listing is the PDA of core_asset.
FillListingCall(buyer, seller, vault_treasury, a, card_record, feeOk, sellerOk) ==
    LET l == listing[a] IN
    IF ~IsCardRecord(cards, card_record) THEN Err("AccountNotInitialized")
    ELSE IF ~l.exists THEN Err("AccountNotInitialized")
    ELSE IF FillCheck(l) # "" THEN Err(FillCheck(l))
    ELSE LET f == ListingFee(l.price_lamports, marketVault.marketplace_fee_bps) IN
    IF ~f.ok THEN Err("MathOverflow")
    ELSE IF f.val > l.price_lamports THEN Err("MathOverflow")
    ELSE LET fee == f.val
             seller_amount == l.price_lamports - fee IN
    IF fee > 0 /\ ~feeOk THEN Err("InsufficientFunds")
    ELSE IF ~sellerOk THEN Err("InsufficientFunds")
    ELSE IF ~CanTransfer(holder, a, MARKET_AUTH) THEN Err("CoreCpiError")
    ELSE [ok |-> TRUE, err |-> "",
          payments |->
              (IF fee > 0
               THEN <<[from |-> buyer, to |-> vault_treasury, amount |-> fee,
                       currency |-> "Sol"]>>
               ELSE <<>>)
              \o <<[from |-> buyer, to |-> seller, amount |-> seller_amount,
                    currency |-> "Sol"]>>,
          cards |-> [cards EXCEPT ![card_record].status = "UserOwned",
                                  ![card_record].owner = buyer],
          holder |-> [holder EXCEPT ![a] = buyer],
          moved |-> <<a>>,
          listing |-> [l EXCEPT !.status = "Filled"]]

\* -------------------------------------------------------- admin_prune_listing
\* admin_prune_listing (lib.rs 1356-1376) overwrites whatever the listing
\* account holds.
AdminPruneListingCall(signer, a) ==
    IF signer # marketVault.admin THEN Err("Unauthorized")
    ELSE IF ~listing[a].exists THEN Err("AccountDidNotSerialize")
    ELSE [ok |-> TRUE, err |-> "",
          listing |-> [exists |-> TRUE, vault_state |-> MARKET_VAULT, seller |-> NoKey,
                       core_asset |-> NoKey, price_lamports |-> 0,
                       currency_mint |-> NoKey, status |-> "Cancelled"]]

\* What sellers declare to list_card.
ListPrices == {1000, 7}
ListTemplates == {1, 2}
ListRarities == {"Rare", "Common"}

\* list_card called with one of the given prices.
ListCardAt(prices) ==
    \E seller \in Users, a \in MarketAssets, price \in prices,
       template_id \in ListTemplates, rarity \in ListRarities :
        LET r == ListCardCall(seller, a, price, NoKey, template_id, rarity) IN
        /\ r.ok
        /\ cards' = r.cards
        /\ holder' = r.holder
        /\ listing' = [listing EXCEPT ![a] = r.listing]
        /\ UNCHANGED seedVars
        /\ last' = [op |-> "list_card", signer |-> seller,
                    accounts |-> <<MarketKey(a), a>>,
                    payments |-> <<>>, moved |-> r.moved, minted |-> 0]
        /\ UNCHANGED <<now, vault, marketVault, packSession, packSessionV2>>

ListCard == ListCardAt(ListPrices)

CancelListing ==
    \E signer \in Users, a \in MarketAssets :
        LET r == CancelListingCall(signer, a) IN
        /\ r.ok
        /\ cards' = r.cards
        /\ holder' = r.holder
        /\ listing' = [listing EXCEPT ![a] = r.listing]
        /\ UNCHANGED seedVars
        /\ last' = [op |-> "cancel_listing", signer |-> signer,
                    accounts |-> <<MarketKey(a), a>>,
                    payments |-> <<>>, moved |-> r.moved, minted |-> 0]
        /\ UNCHANGED <<now, vault, marketVault, packSession, packSessionV2>>

\* The CardRecord accounts a buyer passes to fill_listing: the record of the
\* listed asset, or a record of the gacha vault.
FillRecords(a) == {MarketKey(a), "c1"}

FillListing ==
    \E buyer \in Users, seller \in Users, a \in MarketAssets :
    \E card_record \in FillRecords(a) :
        LET r == FillListingCall(buyer, seller, TREASURY, a, card_record, TRUE, TRUE) IN
        /\ r.ok
        /\ cards' = r.cards
        /\ holder' = r.holder
        /\ listing' = [listing EXCEPT ![a] = r.listing]
        /\ UNCHANGED seedVars
        /\ last' = [op |-> "fill_listing", signer |-> buyer,
                    accounts |-> <<card_record, a, seller, TREASURY>>,
                    payments |-> r.payments, moved |-> r.moved, minted |-> 0]
        /\ UNCHANGED <<now, vault, marketVault, packSession, packSessionV2>>

AdminPruneListing ==
    \E a \in MarketAssets :
        LET r == AdminPruneListingCall(ADMIN, a) IN
        /\ r.ok
        /\ listing' = [listing EXCEPT ![a] = r.listing]
        /\ UNCHANGED seedVars
        /\ last' = [op |-> "admin_prune_listing", signer |-> ADMIN,
                    accounts |-> <<a>>,
                    payments |-> <<>>, moved |-> <<>>, minted |-> 0]
        /\ UNCHANGED <<now, vault, marketVault, cards, holder, packSession,
                       packSessionV2>>

\* ------------------------------------------------------------- deprecate_card
\* deprecate_card (lib.rs 1604-1613): card_record is any CardRecord account
\* the admin passes (DeprecateCard, lib.rs 2150-2151).
DeprecateCardCall(signer, card_record) ==
    IF ~IsCardRecord(cards, card_record) THEN Err("AccountNotInitialized")
    ELSE IF signer # vault.admin THEN Err("Unauthorized")
    ELSE [ok |-> TRUE, err |-> "",
          cards |-> [cards EXCEPT ![card_record].status = "Deprecated"]]

\* ---------------------------------------------------------------- redeem_burn
\* redeem_burn (lib.rs 1310-1329): card_record is any CardRecord account and
\* core_asset any account (RedeemBurn, lib.rs 2037-2041); the handler tests
\* the record's owner only, and the Core program burns the asset when the
\* gacha custody authority holds it (burn_core_asset, lib.rs 2493-2514).  A
\* burned asset has no holder.
RedeemBurnCall(u, card_record, a) ==
    IF ~IsCardRecord(cards, card_record) THEN Err("AccountNotInitialized")
    ELSE IF cards[card_record].owner # u THEN Err("Unauthorized")
    ELSE IF ~CanTransfer(holder, a, VAULT_AUTH) THEN Err("CoreCpiError")
    ELSE [ok |-> TRUE, err |-> "",
          cards |-> [cards EXCEPT ![card_record].status = "Burned"],
          holder |-> [holder EXCEPT ![a] = NoKey]]

DeprecateCard ==
    \E card_record \in CardKeys :
        LET r == DeprecateCardCall(ADMIN, card_record) IN
        /\ r.ok
        /\ cards' = r.cards
        /\ UNCHANGED seedVars
        /\ last' = [op |-> "deprecate_card", signer |-> ADMIN,
                    accounts |-> <<card_record>>,
                    payments |-> <<>>, moved |-> <<>>, minted |-> 0]
        /\ UNCHANGED <<now, vault, marketVault, holder, packSession, packSessionV2,
                       listing>>

RedeemBurn ==
    \E u \in Users, card_record \in CardKeys, a \in GachaAssets :
        LET r == RedeemBurnCall(u, card_record, a) IN
        /\ r.ok
        /\ cards' = r.cards
        /\ holder' = r.holder
        /\ UNCHANGED seedVars
        /\ last' = [op |-> "redeem_burn", signer |-> u,
                    accounts |-> <<card_record, a>>,
                    payments |-> <<>>, moved |-> <<>>, minted |-> 0]
        /\ UNCHANGED <<now, vault, marketVault, packSession, packSessionV2, listing>>

\* ---------------------------------------------------------- set_reward_config
\* set_reward_config (lib.rs 76-90)
SetRewardConfigCall(signer, mochi_mint, reward_per_pack) ==
    IF vault = NoVault THEN Err("AccountNotInitialized")
    ELSE IF signer # vault.admin THEN Err("Unauthorized")
    ELSE [ok |-> TRUE, err |-> "",
          vault |-> [vault EXCEPT !.mochi_mint = mochi_mint,
                                  !.reward_per_pack = reward_per_pack]]

\* The reward mints and amounts the admin may configure.
RewardMints == {"mochi", "rogue"}
RewardAmounts == {0, 5, 7}

SetRewardConfig ==
    \E mochi_mint \in RewardMints, reward_per_pack \in RewardAmounts :
        LET r == SetRewardConfigCall(ADMIN, mochi_mint, reward_per_pack) IN
        /\ r.ok
        /\ vault' = r.vault
        /\ UNCHANGED seedVars
        /\ last' = [op |-> "set_reward_config", signer |-> ADMIN,
                    accounts |-> <<mochi_mint>>,
                    payments |-> <<>>, moved |-> <<>>, minted |-> 0]
        /\ UNCHANGED <<now, marketVault, cards, holder, packSession, packSessionV2,
                       listing>>

\* ------------------------------------------------ admin_rescue_legacy_listing
\* Assets listed under a superseded derivation: their Listing and CardRecord
\* PDAs are seeded with the gacha vault and the gacha authority holds them.
LegacyAssets == {"a3"}

\* The Listing PDA [LISTING_SEED, vault_state, core_asset] as a key of
\* `listing`, and the CardRecord PDA [CARD_RECORD_SEED, vault_state,
\* core_asset] as a key of `cards` (AdminRescueLegacyListing, lib.rs
\* 2126-2133); NoKey when no such account exists.
ListingKey(v, a) ==
    IF (v = MARKET_VAULT /\ a \in MarketAssets) \/ (v = GACHA_VAULT /\ a \in LegacyAssets)
    THEN a ELSE NoKey
CardKeyOf(v, a) ==
    IF v = MARKET_VAULT /\ a \in MarketAssets THEN MarketKey(a)
    ELSE IF v = GACHA_VAULT /\ a \in GachaAssets THEN GachaKey(a)
    ELSE NoKey

\* Pubkey::find_program_address(&[seed, vault_state]) (lib.rs 1527-1540).
DerivedAuthority(seed, v) ==
    IF seed = "market" /\ v = MARKET_VAULT THEN MARKET_AUTH
    ELSE IF seed = "gacha" /\ v = GACHA_VAULT THEN VAULT_AUTH
    ELSE IF seed = "market" THEN "market_authority_of_gacha_vault"
    ELSE "gacha_authority_of_market_vault"

\* The test of the supplied authority (lib.rs 1541-1551): "" when it passes.
\* LegacyAuthorityCheck_Any is the variant that accepts every authority.
LegacyAuthorityCheck_Any(v, authority) == ""
LegacyAuthorityCheck(v, authority) ==
    IF authority = DerivedAuthority("market", v) THEN ""
    ELSE IF authority = DerivedAuthority("gacha", v) THEN ""
    ELSE "VaultMismatch"

\* Stored bytes that no longer decode as a CardRecord.
Drifted == [NoCard EXCEPT !.core_asset = "drifted"]
\* What a CardRecord account reads back as after the rescue wrote the
\* discriminator and then try_serialize, which writes it again (lib.rs
\* 1594-1596; the note at lib.rs 1373): every field sits eight bytes late,
\* so the bytes either fail to decode or decode into foreign values.
ShiftedReads ==
    {Drifted,
     [vault_state |-> "shifted", core_asset |-> "shifted", template_id |-> 0,
      rarity |-> "Common", status |-> "Available", owner |-> "shifted"]}

\* admin_rescue_legacy_listing (lib.rs 1509-1602). The record's owner is set
\* to the seller before should_transfer compares it with the authority
\* (lib.rs 1571-1573); the write-back is skipped when the record account is
\* missing (lib.rs 1592-1598).
AdminRescueLegacyListingCall(signer, legacy, a, authority, seller, readback) ==
    \* the accounts legacy_vault_state and legacy_vault_authority
    LET lk == ListingKey(legacy, a)
        k == CardKeyOf(legacy, a) IN
    IF lk = NoKey \/ lk \notin DOMAIN listing THEN Err("AccountNotInitialized")
    ELSE IF ~listing[lk].exists THEN Err("AccountNotInitialized")
    ELSE LET l == listing[lk] IN
    IF signer # marketVault.admin THEN Err("Unauthorized")
    ELSE IF l.vault_state # legacy THEN Err("VaultMismatch")
    ELSE IF l.seller # seller THEN Err("Unauthorized")
    ELSE IF LegacyAuthorityCheck(legacy, authority) # ""
         THEN Err(LegacyAuthorityCheck(legacy, authority))
    ELSE LET should_transfer == l.seller = authority IN
    IF should_transfer /\ ~CanTransfer(holder, a, authority) THEN Err("CoreCpiError")
    ELSE [ok |-> TRUE, err |-> "",
          cards |-> IF cards[k] = NoCard THEN cards ELSE [cards EXCEPT ![k] = readback],
          holder |-> IF should_transfer THEN [holder EXCEPT ![a] = seller] ELSE holder,
          moved |-> IF should_transfer THEN <<a>> ELSE <<>>,
          listing |-> [l EXCEPT !.status = "Cancelled"]]

\* What the admin may pass to the rescue.
VaultStates == {GACHA_VAULT, MARKET_VAULT}
SuppliedAuthorities == {VAULT_AUTH, MARKET_AUTH, "u1"}

AdminRescueLegacyListing ==
    \E v \in VaultStates, a \in MarketAssets \cup LegacyAssets,
       authority \in SuppliedAuthorities, seller \in Users, readback \in ShiftedReads :
        LET r == AdminRescueLegacyListingCall(ADMIN, v, a, authority, seller, readback) IN
        /\ r.ok
        /\ cards' = r.cards
        /\ holder' = r.holder
        /\ listing' = [listing EXCEPT ![a] = r.listing]
        /\ UNCHANGED seedVars
        /\ last' = [op |-> "admin_rescue_legacy_listing", signer |-> ADMIN,
                    accounts |-> <<v, a, authority, seller>>,
                    payments |-> <<>>, moved |-> r.moved, minted |-> 0]
        /\ UNCHANGED <<now, vault, marketVault, packSession, packSessionV2>>

\* ------------------------------- admin_force_cancel_listing / emergency_return
\* The data length of a CardRecord account: deposit_card and list_card
\* create it with space = 8 + CardRecord::SIZE (lib.rs 1793, 1960), and no
\* instruction resizes it; an account that was never created has no data.
CardRecord_SIZE == 102
RecordSpace(k) == IF cards[k] = NoCard THEN 0 ELSE 8 + CardRecord_SIZE

\* cursor.write_all(&CardRecord::discriminator())? followed by
\* record.try_serialize(&mut cursor)? (lib.rs 1433-1438, 1496-1501):
\* try_serialize writes the discriminator itself (the note at lib.rs 1373),
\* so 8 + 8 + SIZE bytes are written and the second `?` fails when the
\* account is shorter.
WriteDiscriminatorThenSerialize(space) ==
    IF space >= 8 + 8 + CardRecord_SIZE THEN "" ELSE "AccountDidNotSerialize"

\* admin_force_cancel_listing (lib.rs 1380-1442). A failing instruction
\* reverts the transfer made before the failing write.
AdminForceCancelListingCall(signer, a, seller, readback) ==
    IF a \notin MarketAssets \/ a \notin DOMAIN listing THEN Err("AccountNotInitialized")
    ELSE IF ~listing[a].exists THEN Err("AccountNotInitialized")
    ELSE LET l == listing[a]
             k == MarketKey(a) IN
    IF signer # marketVault.admin THEN Err("Unauthorized")
    ELSE IF l.vault_state # MARKET_VAULT THEN Err("VaultMismatch")
    ELSE IF l.seller # seller THEN Err("Unauthorized")
    ELSE IF ~CanTransfer(holder, a, MARKET_AUTH) THEN Err("CoreCpiError")
    ELSE IF WriteDiscriminatorThenSerialize(RecordSpace(k)) # ""
         THEN Err(WriteDiscriminatorThenSerialize(RecordSpace(k)))
    ELSE [ok |-> TRUE, err |-> "",
          cards |-> [cards EXCEPT ![k] = readback],
          holder |-> [holder EXCEPT ![a] = seller],
          moved |-> <<a>>,
          listing |-> [l EXCEPT !.status = "Cancelled"]]

\* emergency_return_asset (lib.rs 1446-1505): statement for statement the
\* body of admin_force_cancel_listing, over the same accounts
\* (EmergencyReturnAsset, lib.rs 2096-2116).
EmergencyReturnAssetCall(signer, a, seller, readback) ==
    AdminForceCancelListingCall(signer, a, seller, readback)

\* -------------------------------------------------------- migrate_vault_state
\* migrate_vault_state (lib.rs 93-195) writes the account by hand, one byte
\* cell after another, and every later instruction reads it back through the
\* Borsh decoder of VaultState (lib.rs 2185-2199). The cells after
\* marketplace_fee_bps: an Option is a flag byte followed by the 32 key bytes.
KeyBytes(k) == [i \in 1..32 |-> k]
ZeroBytes(n) == [i \in 1..n |-> 0]
RECURSIVE U64Bytes(_, _)
U64Bytes(x, n) == IF n = 0 THEN <<>> ELSE <<x % 256>> \o U64Bytes(x \div 256, n - 1)
OptionCells(k) == IF k = NoKey THEN <<0>> \o ZeroBytes(32) ELSE <<1>> \o KeyBytes(k)

MigrateTail(usdc_mint, mochi_mint, reward_per_pack, bump) ==
    <<0>> \o ZeroBytes(32) \o OptionCells(usdc_mint) \o OptionCells(mochi_mint)
          \o U64Bytes(reward_per_pack, 8) \o <<bump>> \o ZeroBytes(7)

\* Borsh: None is the single byte 0; Some is the byte 1 and the key.
ReadOption(cells, off) ==
    IF cells[off] = 0 THEN [val |-> NoKey, next |-> off + 1]
    ELSE [val |-> cells[off + 1], next |-> off + 33]
RECURSIVE ReadU64(_, _, _)
ReadU64(cells, off, i) ==
    IF i > 8 THEN 0 ELSE cells[off + i - 1] + 256 * ReadU64(cells, off, i + 1)

DecodeTail(cells) ==
    LET cc == ReadOption(cells, 1)
        um == ReadOption(cells, cc.next)
        mm == ReadOption(cells, um.next)
    IN [core_collection |-> cc.val, usdc_mint |-> um.val, mochi_mint |-> mm.val,
        reward_per_pack |-> ReadU64(cells, mm.next, 1)]

\* The signer is not compared with the stored admin (lib.rs 2175-2183).
MigrateVaultStateCall(signer, cfg) ==
    LET tail == DecodeTail(MigrateTail(cfg.usdc_mint, cfg.mochi_mint, cfg.reward_per_pack, 255)) IN
    [ok |-> TRUE, err |-> "",
     vault |-> [admin |-> signer, vault_authority |-> VAULT_AUTH,
                pack_price_sol |-> cfg.pack_price_sol,
                pack_price_usdc |-> cfg.pack_price_usdc,
                buyback_bps |-> cfg.buyback_bps,
                claim_window_seconds |-> cfg.claim_window_seconds,
                marketplace_fee_bps |-> cfg.marketplace_fee_bps,
                core_collection |-> tail.core_collection,
                usdc_mint |-> tail.usdc_mint, mochi_mint |-> tail.mochi_mint,
                reward_per_pack |-> tail.reward_per_pack]]

MigrateConfigs ==
    {[pack_price_sol |-> 800, pack_price_usdc |-> 400, buyback_bps |-> 5000,
      claim_window_seconds |-> 2, marketplace_fee_bps |-> 250,
      usdc_mint |-> "usdc", mochi_mint |-> "mochi", reward_per_pack |-> 5]}

MigrateVaultStateBy(signers) ==
    \E signer \in signers, cfg \in MigrateConfigs :
        LET r == MigrateVaultStateCall(signer, cfg) IN
        /\ r.ok
        /\ vault' = r.vault
        /\ UNCHANGED seedVars
        /\ last' = [NoCall EXCEPT !.op = "migrate_vault_state", !.signer = signer]
        /\ UNCHANGED <<now, cards, holder, packSession, packSessionV2, marketVault, listing>>

MigrateVaultState == MigrateVaultStateBy({ADMIN})

Next ==
    \/ Tick
    \/ DepositCard
    \/ \E u \in Players : OpenPack(u)
    \/ \E u \in Players : ClaimPackV2(u)
    \/ \E u \in Players : SellbackPackV2(u)
    \/ \E u \in Players : ExpireSessionV2(u)
    \/ \E u \in Players : OpenPackStart(u)
    \/ \E u \in Players : ClaimPack(u)
    \/ \E u \in Players : SellbackPack(u)
    \/ \E u \in Players : ExpireSession(u)
    \/ \E u \in Players : UserResetSession(u)

Spec == Init /\ [][Next]_vars

\* The opens and the lightweight resolutions while the vault is reconfigured.
NextConfig ==
    \/ Tick
    \/ DepositCard
    \/ MigrateVaultState
    \/ \E u \in Players : OpenPack(u)
    \/ \E u \in Players : OpenPackStart(u)
    \/ \E u \in Players : ClaimPackV2(u)
    \/ \E u \in Players : SellbackPackV2(u)
    \/ \E u \in Players : ExpireSessionV2(u)

SpecConfig == Init /\ [][NextConfig]_vars

\* The batched claims of a full pack and their finalize step.
NextBatch ==
    \/ Tick
    \/ DepositCard
    \/ \E u \in Players : OpenPack(u)
    \/ \E u \in Players : OpenPackStart(u)
    \/ \E u \in Players : ClaimPackBatch(u)
    \/ \E u \in Players : ClaimPackBatch3(u)
    \/ \E u \in Players : FinalizeClaim(u)

SpecBatch == Init /\ [][NextBatch]_vars

\* The admin's close, reset and free operations on the users' sessions.
NextAdmin ==
    \/ Tick
    \/ \E u \in Players : OpenPack(u)
    \/ \E u \in Players : OpenPackStart(u)
    \/ \E u \in Players : ExpireSession(u)
    \/ AdminForceCloseV2
    \/ AdminForceCloseSession
    \/ AdminResetSession
    \/ AdminResetCards

SpecAdmin == Init /\ [][NextAdmin]_vars

\* The marketplace, starting before the asset of MarketAssets is listed: the
\* asset is in its seller's wallet and has neither CardRecord nor Listing.
InitMarket ==
    /\ now = 0
    /\ vault \in {InitializeVaultCall(ADMIN, cfg).vault : cfg \in InitConfigs}
    /\ marketVault = InitializeMarketplaceVaultCall(ADMIN, 250, "collection", NoKey).vault
    /\ cards = [k \in CardKeys |->
                  IF \E a \in InitialAssets : GachaKey(a) = k
                  THEN DepositedRecord(CHOOSE a \in InitialAssets : GachaKey(a) = k)
                  ELSE NoCard]
    /\ holder = [a \in GachaAssets \cup MarketAssets |->
                   IF a \in MarketAssets THEN "u1" ELSE VAULT_AUTH]
    /\ packSession = [u \in Users |-> NoSession]
    /\ packSessionV2 = [u \in Users |-> NoSessionV2]
    /\ listing = [a \in MarketAssets |-> NoListing]
    /\ SeedIdle
    /\ last = NoCall

NextMarket ==
    \/ ListCard
    \/ CancelListing
    \/ FillListing
    \/ AdminPruneListing

SpecMarket == InitMarket /\ [][NextMarket]_vars

\* The records of both vaults under the users' and the admin's record
\* operations: a lightweight pack is opened and claimed while cards are
\* listed, filled, cancelled, deprecated and burned.
NextCards ==
    \/ \E u \in Players : OpenPack(u)
    \/ \E u \in Players : ClaimPackV2(u)
    \/ ListCard
    \/ CancelListing
    \/ FillListing
    \/ DeprecateCard
    \/ RedeemBurn

SpecCards == Init /\ [][NextCards]_vars

\* The lightweight flow while the admin reconfigures the reward.
NextReward ==
    \/ Tick
    \/ SetRewardConfig
    \/ \E u \in Players : OpenPack(u)
    \/ \E u \in Players : ClaimPackV2(u)
    \/ \E u \in Players : SellbackPackV2(u)

SpecReward == Init /\ [][NextReward]_vars

\* Prices at the top of the unsigned word: a vault whose SOL pack price is
\* the largest word, price lists whose sum or whose product with the
\* buyback rate leaves the word, and a listing at the largest word.
WideConfigs == {[cfg EXCEPT !.pack_price_sol = WordMax] : cfg \in InitConfigs}
WidePriceLists == {<<100, 201>>, <<WordMax>>, <<WordMax, 1>>}
WidePrices == {WordMax}

InitWide ==
    /\ now = 0
    /\ vault \in {InitializeVaultCall(ADMIN, cfg).vault : cfg \in WideConfigs}
    /\ cards = [k \in CardKeys |->
                  IF k \in MarketKeys THEN ListedRecord("b1")
                  ELSE IF \E a \in InitialAssets : GachaKey(a) = k
                  THEN DepositedRecord(CHOOSE a \in InitialAssets : GachaKey(a) = k)
                  ELSE NoCard]
    /\ holder = [a \in GachaAssets \cup MarketAssets |->
                   IF a \in MarketAssets THEN MARKET_AUTH ELSE VAULT_AUTH]
    /\ packSession = [u \in Users |-> NoSession]
    /\ packSessionV2 = [u \in Users |-> NoSessionV2]
    /\ marketVault = InitializeMarketplaceVaultCall(ADMIN, 250, "collection", NoKey).vault
    /\ listing = [a \in MarketAssets |-> ListedListing(a)]
    /\ SeedIdle
    /\ last = NoCall

NextWide ==
    \/ Tick
    \/ \E u \in Players : OpenPack(u)
    \/ \E u \in Players : SellbackPackV2(u)
    \/ \E u \in Players : OpenPackStartWith(u, WidePriceLists)
    \/ \E u \in Players : SellbackPack(u)
    \/ ListCardAt(WidePrices)
    \/ CancelListing
    \/ FillListing

SpecWide == InitWide /\ [][NextWide]_vars

\* The marketplace with what an earlier layout of the program left behind:
\* the listed asset's CardRecord either as list_card writes it or as bytes
\* that no longer decode, and a legacy Listing of a LegacyAssets asset under
\* the gacha vault's PDAs, with or without its CardRecord, whose stored vault
\* reference is the vault of its PDA or another one.
LegacyRecord(a) ==
    [vault_state |-> GACHA_VAULT, core_asset |-> a, template_id |-> TemplateOf(a),
     rarity |-> RarityOf(a), status |-> "Reserved", owner |-> VAULT_AUTH]

InitLegacy ==
    /\ now = 0
    /\ vault \in {InitializeVaultCall(ADMIN, cfg).vault : cfg \in InitConfigs}
    /\ marketVault = InitializeMarketplaceVaultCall(ADMIN, 250, "collection", NoKey).vault
    /\ \E market \in {ListedRecord("b1"), Drifted}, legacy \in {LegacyRecord("a3"), NoCard} :
           cards = [k \in CardKeys |->
                      IF k \in MarketKeys THEN market
                      ELSE IF \E a \in InitialAssets : GachaKey(a) = k
                      THEN DepositedRecord(CHOOSE a \in InitialAssets : GachaKey(a) = k)
                      ELSE legacy]
    /\ holder = [a \in GachaAssets \cup MarketAssets |->
                   IF a \in MarketAssets THEN MARKET_AUTH ELSE VAULT_AUTH]
    /\ packSession = [u \in Users |-> NoSession]
    /\ packSessionV2 = [u \in Users |-> NoSessionV2]
    /\ \E v \in VaultStates :
           listing = [a \in MarketAssets \cup LegacyAssets |->
                        IF a \in MarketAssets THEN ListedListing(a)
                        ELSE [ListedListing(a) EXCEPT !.vault_state = v]]
    /\ SeedIdle
    /\ last = NoCall

NextLegacy ==
    \/ ListCard
    \/ CancelListing
    \/ FillListing
    \/ AdminRescueLegacyListing

SpecLegacy == InitLegacy /\ [][NextLegacy]_vars
\* The lightweight pack flow with a claim whose asset accounts are any
\* assets of the vault, in any order.
NextCustody ==
    \/ Tick
    \/ DepositCard
    \/ \E u \in Players : OpenPack(u)
    \/ \E u \in Players : ClaimPackV2Of(u, AnyAssetLists(packSessionV2[u].rare_card_keys))
    \/ \E u \in Players : SellbackPackV2(u)
    \/ \E u \in Players : ExpireSessionV2(u)

SpecCustody == Init /\ [][NextCustody]_vars
\* The lightweight pack flow with its cleanup, interleaved with the
\* operations of other callers that write CardRecords.
NextCleanup ==
    \/ Tick
    \/ \E u \in Players : OpenPack(u)
    \/ \E u \in Players : ClaimPackV2(u)
    \/ \E u \in Players : ExpireSessionV2(u)
    \/ RedeemBurn
    \/ FillListing

SpecCleanup == Init /\ [][NextCleanup]_vars
\* Both pack flows with price lists of the caller's choosing: open_pack_start
\* stores whatever rarity_prices it is given (lib.rs 709).
GenerousPriceLists == {<<1>>, <<1000, 1000>>}

NextPrices ==
    \/ Tick
    \/ \E u \in Players : OpenPack(u)
    \/ \E u \in Players : SellbackPackV2(u)
    \/ \E u \in Players : OpenPackStartWith(u, GenerousPriceLists)
    \/ \E u \in Players : SellbackPack(u)
    \/ \E u \in Players : ExpireSession(u)
    \/ \E u \in Players : UserResetSession(u)

SpecPrices == Init /\ [][NextPrices]_vars
\* The vault's configuration operations with any signer of
\* migrate_vault_state, beside the lightweight pack flow.
NextMigrate ==
    \/ Tick
    \/ DepositCard
    \/ SetRewardConfig
    \/ MigrateVaultStateBy(Users \cup {ADMIN})
    \/ \E u \in Players : OpenPack(u)
    \/ \E u \in Players : SellbackPackV2(u)

SpecMigrate == Init /\ [][NextMigrate]_vars

\* ======================================================================
\* The seed sale program (mochi_seed_sale)
\* ======================================================================
\* The signer the token program wants for a transfer out of a token account:
\* the sale's vault authority PDA [VAULT_AUTH_SEED, sale] for the seed vault,
\* the PDA [VESTING_SEED, beneficiary] for a vesting vault, the wallet for
\* its own token account.
SALE_VAULT_AUTH == "seed_vault_authority"
VestingPda(b) == IF b = "u1" THEN "vesting_u1" ELSE "vesting_u2"
TokenAuthority(t) ==
    IF t = SEED_VAULT THEN SALE_VAULT_AUTH
    ELSE IF t[1] = "vest_vault" THEN VestingPda(t[2])
    ELSE t[2]

\* token::transfer of the SPL token program: "" when it goes through.
TokenTransfer(from, authority, amount) ==
    IF TokenAuthority(from) # authority THEN "OwnerMismatch"
    ELSE IF tokens[from] < amount THEN "InsufficientFunds"
    ELSE ""

\* The clock of the seed sale's cluster advances.
SeedTick ==
    /\ seedNow < MaxSeedTime
    /\ seedNow' = seedNow + 1
    /\ seedLast' = NoSeedCall
    /\ UNCHANGED <<sale, contribution, vesting, lamports, tokens>>
    /\ UNCHANGED vars

\* A holder of the sale token funds a vault through the token program.
FundVault(t, amount) ==
    /\ tokens[t] = 0
    /\ IF t = SEED_VAULT THEN sale.exists ELSE vesting[t[2]].exists
    /\ tokens' = [tokens EXCEPT ![t] = amount]
    /\ seedLast' = [NoSeedCall EXCEPT !.op = "fund", !.amount = amount, !.to = t]
    /\ UNCHANGED <<seedNow, sale, contribution, vesting, lamports>>
    /\ UNCHANGED vars

\* ---------------------------------------------------------------- init_sale
InitSaleCall(signer, treasury, start_ts, end_ts, price_tokens_per_sol, token_cap, sol_cap_lamports) ==
    IF sale.exists THEN Err("AccountAlreadyInUse")
    ELSE IF ~(end_ts > start_ts) THEN Err("InvalidWindow")
    ELSE [ok |-> TRUE, err |-> "",
          sale |-> [exists |-> TRUE, authority |-> signer, treasury |-> treasury,
                    start_ts |-> start_ts, end_ts |-> end_ts,
                    price_tokens_per_sol |-> price_tokens_per_sol,
                    token_cap |-> token_cap, sol_cap_lamports |-> sol_cap_lamports,
                    sold_tokens |-> 0, raised_lamports |-> 0, is_canceled |-> FALSE]]

\* The sales the authority sets up: with and without each cap.
SaleConfigs ==
    [start_ts : {1}, end_ts : {1, 2}, price : {2}, token_cap : {0, 6}, sol_cap : {0, 5}]

InitSale ==
    \E cfg \in SaleConfigs :
        LET r == InitSaleCall(SALE_AUTHORITY, SALE_TREASURY, cfg.start_ts, cfg.end_ts,
                              cfg.price, cfg.token_cap, cfg.sol_cap)
        IN  /\ r.ok
            /\ sale' = r.sale
            /\ seedLast' = [NoSeedCall EXCEPT !.op = "init_sale", !.signer = SALE_AUTHORITY]
            /\ UNCHANGED <<seedNow, contribution, vesting, lamports, tokens>>
            /\ UNCHANGED vars

\* --------------------------------------------------------------- contribute
\* lib.rs 56-58, 64-66: a cap of zero means no cap.
CapReached_Never(potential, cap) == FALSE
CapReached(potential, cap) == cap > 0 /\ ~(potential <= cap)

ContributeCall(buyer, treasury, amount) ==
    IF ~sale.exists THEN Err("AccountNotInitialized")
    ELSE IF sale.is_canceled THEN Err("Canceled")
    ELSE IF ~(seedNow >= sale.start_ts) THEN Err("NotStarted")
    ELSE IF ~(seedNow <= sale.end_ts) THEN Err("Ended")
    ELSE IF ~(amount > 0) THEN Err("InvalidContribution")
    ELSE LET potential_raise == sale.raised_lamports + amount
             tokens_owed == amount * sale.price_tokens_per_sol
             potential_sold == sale.sold_tokens + tokens_owed
             contrib == contribution[buyer]
         IN  IF potential_raise > WordMax THEN Err("Overflow")
             ELSE IF CapReached(potential_raise, sale.sol_cap_lamports) THEN Err("CapReached")
             ELSE IF tokens_owed > WordMax THEN Err("Overflow")
             ELSE IF potential_sold > WordMax THEN Err("Overflow")
             ELSE IF CapReached(potential_sold, sale.token_cap) THEN Err("CapReached")
             \* the transfer instruction names sale.treasury; the call
             \* carries the treasury account the caller passed
             ELSE IF treasury # sale.treasury THEN Err("MissingAccount")
             ELSE IF lamports[buyer] < amount THEN Err("InsufficientFunds")
             ELSE IF contrib.contributed_lamports + amount > WordMax THEN Err("Overflow")
             ELSE IF contrib.tokens_owed + tokens_owed > WordMax THEN Err("Overflow")
             ELSE [ok |-> TRUE, err |-> "",
                   \* init_if_needed leaves a new account zeroed; the handler
                   \* writes every field but bump
                   contribution |->
                       [exists |-> TRUE, buyer |-> buyer,
                        contributed_lamports |-> contrib.contributed_lamports + amount,
                        tokens_owed |-> contrib.tokens_owed + tokens_owed,
                        claimed |-> FALSE, bump |-> contrib.bump],
                   sale |-> [sale EXCEPT !.raised_lamports = potential_raise,
                                         !.sold_tokens = potential_sold]]

ContributionAmounts == {0, 1, 3}

Contribute ==
    \E buyer \in Users, treasury \in {SALE_TREASURY, "u1"}, amount \in ContributionAmounts :
        LET r == ContributeCall(buyer, treasury, amount)
        IN  /\ r.ok
            /\ sale' = r.sale
            /\ contribution' = [contribution EXCEPT ![buyer] = r.contribution]
            /\ lamports' = [lamports EXCEPT ![buyer] = @ - amount,
                                            ![sale.treasury] = @ + amount]
            /\ seedLast' = [NoSeedCall EXCEPT !.op = "contribute", !.signer = buyer,
                                               !.amount = amount]
            /\ UNCHANGED <<seedNow, vesting, tokens>>
            /\ UNCHANGED vars

\* -------------------------------------------------------------------- claim
ClaimCall(buyer, seed_vault, user_ata) ==
    IF ~sale.exists \/ ~contribution[buyer].exists THEN Err("AccountNotInitialized")
    \* Claim.contribution: seeds with bump = contribution.bump
    ELSE IF contribution[buyer].bump # ContributionBump(buyer) THEN Err("ConstraintSeeds")
    ELSE IF sale.is_canceled THEN Err("Canceled")
    ELSE IF ~(seedNow > sale.end_ts) THEN Err("NotEnded")
    ELSE IF contribution[buyer].claimed THEN Err("AlreadyClaimed")
    ELSE LET amount == contribution[buyer].tokens_owed
             t == TokenTransfer(seed_vault, SALE_VAULT_AUTH, amount)
         IN  IF ~(amount > 0) THEN Err("NothingToClaim")
             ELSE IF t # "" THEN Err(t)
             ELSE [ok |-> TRUE, err |-> "", amount |-> amount,
                   contribution |-> [contribution[buyer] EXCEPT !.claimed = TRUE]]

Claim ==
    \E buyer \in Users, seed_vault \in {SEED_VAULT, Ata("u2")}, user_ata \in {Ata(u) : u \in Users} :
        LET r == ClaimCall(buyer, seed_vault, user_ata)
        IN  /\ r.ok
            /\ contribution' = [contribution EXCEPT ![buyer] = r.contribution]
            /\ tokens' = [tokens EXCEPT ![seed_vault] = @ - r.amount,
                                        ![user_ata] = @ + r.amount]
            /\ seedLast' = [op |-> "claim", signer |-> buyer, amount |-> r.amount,
                            from |-> seed_vault, to |-> user_ata]
            /\ UNCHANGED <<seedNow, sale, vesting, lamports>>
            /\ UNCHANGED vars

\* -------------------------------------------------------------- cancel_sale
CancelSaleCall(signer) ==
    IF ~sale.exists THEN Err("AccountNotInitialized")
    \* CancelSale.sale: has_one = authority
    ELSE IF signer # sale.authority THEN Err("ConstraintHasOne")
    ELSE [ok |-> TRUE, err |-> "", sale |-> [sale EXCEPT !.is_canceled = TRUE]]

CancelSale ==
    \E signer \in Users \cup {SALE_AUTHORITY} :
        LET r == CancelSaleCall(signer)
        IN  /\ r.ok
            /\ sale' = r.sale
            /\ seedLast' = [NoSeedCall EXCEPT !.op = "cancel_sale", !.signer = signer]
            /\ UNCHANGED <<seedNow, contribution, vesting, lamports, tokens>>
            /\ UNCHANGED vars

\* ------------------------------------------------------------- init_vesting
InitVestingCall(signer, beneficiary, start_ts, cliff_ts, end_ts, total_amount) ==
    IF vesting[beneficiary].exists THEN Err("AccountAlreadyInUse")
    ELSE IF ~(start_ts < end_ts) THEN Err("InvalidWindow")
    ELSE [ok |-> TRUE, err |-> "",
          vesting |-> [exists |-> TRUE, authority |-> signer, beneficiary |-> beneficiary,
                       start_ts |-> start_ts, cliff_ts |-> cliff_ts, end_ts |-> end_ts,
                       total_amount |-> total_amount, claimed_amount |-> 0]]

\* The schedules the authority sets up; the cliff is not compared with the
\* window, so it can lie before, inside or after it.
VestingConfigs ==
    [start_ts : {1}, cliff_ts : {0, 2, 5}, end_ts : {1, 4}, total_amount : {0, 10}]

InitVesting ==
    \E beneficiary \in Beneficiaries, cfg \in VestingConfigs :
        LET r == InitVestingCall(SALE_AUTHORITY, beneficiary, cfg.start_ts, cfg.cliff_ts,
                                 cfg.end_ts, cfg.total_amount)
        IN  /\ r.ok
            /\ vesting' = [vesting EXCEPT ![beneficiary] = r.vesting]
            /\ seedLast' = [NoSeedCall EXCEPT !.op = "init_vesting", !.signer = SALE_AUTHORITY]
            /\ UNCHANGED <<seedNow, sale, contribution, lamports, tokens>>
            /\ UNCHANGED vars

\* ------------------------------------------------------------ vested_amount
\* The product is taken in 128 bits, so it does not overflow; the quotient
\* is at most total_amount and fits the 64 bits it is cast to.
vested_amount_RoundUp(vest, t) ==
    IF t <= vest.start_ts THEN 0
    ELSE IF t >= vest.end_ts THEN vest.total_amount
    ELSE (vest.total_amount * (t - vest.start_ts) + (vest.end_ts - vest.start_ts) - 1)
             \div (vest.end_ts - vest.start_ts)

vested_amount(vest, t) ==
    IF t <= vest.start_ts THEN 0
    ELSE IF t >= vest.end_ts THEN vest.total_amount
    ELSE (vest.total_amount * (t - vest.start_ts)) \div (vest.end_ts - vest.start_ts)

\* ------------------------------------------------------------ claim_vesting
ClaimVestingCall(signer, vest_vault, beneficiary_ata) ==
    \* ClaimVesting.vesting: the PDA of the signer's key
    IF signer \notin Beneficiaries THEN Err("AccountNotInitialized")
    ELSE IF ~vesting[signer].exists THEN Err("AccountNotInitialized")
    ELSE LET vest == vesting[signer]
             vested == vested_amount(vest, seedNow)
             claimable == vested - vest.claimed_amount
             t == TokenTransfer(vest_vault, VestingPda(vest.beneficiary), claimable)
         IN  IF ~(seedNow >= vest.cliff_ts) THEN Err("CliffNotReached")
             ELSE IF ~(vest.total_amount > vest.claimed_amount) THEN Err("NothingToClaim")
             ELSE IF claimable < 0 THEN Err("Overflow")
             ELSE IF ~(claimable > 0) THEN Err("NothingToClaim")
             ELSE IF t # "" THEN Err(t)
             ELSE IF vest.claimed_amount + claimable > WordMax THEN Err("Overflow")
             ELSE [ok |-> TRUE, err |-> "", amount |-> claimable,
                   vesting |-> [vest EXCEPT !.claimed_amount = @ + claimable]]

ClaimVesting ==
    \E signer \in Users, vest_vault \in {VestVault(b) : b \in Beneficiaries} \cup {SEED_VAULT},
       beneficiary_ata \in {Ata(u) : u \in Users} :
        LET r == ClaimVestingCall(signer, vest_vault, beneficiary_ata)
        IN  /\ r.ok
            /\ vesting' = [vesting EXCEPT ![signer] = r.vesting]
            /\ tokens' = [tokens EXCEPT ![vest_vault] = @ - r.amount,
                                        ![beneficiary_ata] = @ + r.amount]
            /\ seedLast' = [op |-> "claim_vesting", signer |-> signer, amount |-> r.amount,
                            from |-> vest_vault, to |-> beneficiary_ata]
            /\ UNCHANGED <<seedNow, sale, contribution, lamports>>
            /\ UNCHANGED vars

\* The seed sale: its setup, the contributions inside the window, the
\* claims after it and the cancellation.
NextSale ==
    \/ SeedTick
    \/ InitSale
    \/ FundVault(SEED_VAULT, 8)
    \/ Contribute
    \/ Claim
    \/ CancelSale

SpecSale == Init /\ [][NextSale]_seedVars

\* The vesting schedule of a beneficiary and its claims over time.
NextVesting ==
    \/ SeedTick
    \/ InitVesting
    \/ FundVault(VestVault("u1"), 10)
    \/ ClaimVesting

SpecVesting == Init /\ [][NextVesting]_seedVars
\* ======================================================================
\* Properties
\* ======================================================================
Pending(s) == s.state = "PendingDecision"
OpenOps == {"open_pack", "open_pack_start"}
AuthorityOf(v) == IF v = MARKET_VAULT THEN MARKET_AUTH ELSE VAULT_AUTH

\* The session a committed call worked on, and the CardRecords it reserved.
SessionOf(call) ==
    IF call.op \in {"open_pack", "claim_pack_v2", "sellback_pack_v2", "expire_session_v2"}
    THEN packSessionV2[call.signer] ELSE packSession[call.signer]
ReservedKeys(call) ==
    IF call.op \in {"open_pack", "claim_pack_v2", "sellback_pack_v2", "expire_session_v2"}
    THEN packSessionV2[call.signer].rare_card_keys ELSE packSession[call.signer].card_record_keys

\* C1: in every reachable state no user has both the full-pack session
\* (open_pack_start) and the lightweight session (open_pack) in
\* PendingDecision.
C1_OnePendingPerUser ==
    \A u \in Users : ~(Pending(packSession[u]) /\ Pending(packSessionV2[u]))

\* C2: an open_pack or open_pack_start call that finds the caller's session in
\* PendingDecision fails, whatever the clock reads.
C2_OpenOnPendingFails ==
    \A u \in Players, currency \in Currencies :
        /\ Pending(packSessionV2[u]) =>
               \A cs \in CardBatches :
                   ~OpenPackCall(u, currency, DeclaredTemplates(cs), cs \o GoodTail(currency),
                                 GoodReward(u), TRUE).ok
        /\ Pending(packSession[u]) =>
               \A cs \in PackBatches, prices \in PriceLists :
                   ~OpenPackStartCall(u, currency, prices, cs \o GoodTail(currency), TRUE).ok

\* What the specification asks of a CardRecord handed to an open.
ValidForOpen(k) ==
    /\ IsCardRecord(cards, k)
    /\ cards[k].vault_state = GACHA_VAULT
    /\ cards[k].status = "Available"
ValidForOpenPack(k, template) ==
    /\ ValidForOpen(k)
    /\ cards[k].rarity \in {"Rare", "DoubleRare", "UltraRare", "IllustrationRare",
                            "SpecialIllustrationRare", "MegaHyperRare"}
    /\ cards[k].template_id = template

\* C3: an open whose batch holds a CardRecord that fails validation (wrong
\* vault, not Available, for open_pack also a rarity or template mismatch)
\* fails, wherever that record sits in the batch; a failed call commits
\* nothing, so no record is reserved, nothing is paid or minted and the
\* session is as it was.
C3_AllOrNothing ==
    \A u \in Users, currency \in Currencies :
        /\ \A cs \in CardBatches : \A ts \in TemplateLists(cs) :
               (\E i \in 1..Len(cs) : ~ValidForOpenPack(cs[i], ts[i]))
                   => ~OpenPackCall(u, currency, ts, cs \o GoodTail(currency), GoodReward(u), TRUE).ok
        /\ \A cs \in PackBatches :
               (\E i \in 1..Len(cs) : ~ValidForOpen(cs[i]))
                   => ~OpenPackStartCall(u, currency, <<1>>, cs \o GoodTail(currency), TRUE).ok

\* C3 happens: a two-card batch with one Available rare card and one card
\* that is no longer Available is refused for that reason in both orders.
C3_Witness ==
    \E good \in CardKeys, bad \in CardKeys :
        /\ ValidForOpenPack(good, cards[good].template_id)
        /\ IsCardRecord(cards, bad) /\ cards[bad].vault_state = GACHA_VAULT
        /\ cards[bad].status # "Available"
        /\ OpenPackCall("u2", "Sol", DeclaredTemplates(<<good, bad>>), <<good, bad>>,
                        GoodReward("u2"), TRUE).err = "CardNotAvailable"
        /\ OpenPackCall("u2", "Sol", DeclaredTemplates(<<bad, good>>), <<bad, good>>,
                        GoodReward("u2"), TRUE).err = "CardNotAvailable"
\* What an open must leave behind: the session PendingDecision with the
\* price and window of the vault, every supplied CardRecord reserved for the
\* caller.
OpenPostcondition(call) ==
    LET s == SessionOf(call) IN
    /\ Pending(s)
    /\ s.user = call.signer
    /\ s.paid_amount = (IF s.currency = "Sol" THEN vault.pack_price_sol ELSE vault.pack_price_usdc)
    /\ s.created_at = now
    /\ s.expires_at = s.created_at + vault.claim_window_seconds
    /\ ReservedKeys(call) = call.accounts
    /\ \A i \in 1..Len(call.accounts) :
           /\ cards[call.accounts[i]].status = "Reserved"
           /\ cards[call.accounts[i]].owner = call.signer

\* A session that stays PendingDecision keeps the times it was opened with.
PendingTimesKept ==
    \A u \in Users :
        /\ (Pending(packSessionV2[u]) /\ ~(last'.op = "open_pack" /\ last'.signer = u))
               => /\ packSessionV2'[u].created_at = packSessionV2[u].created_at
                  /\ packSessionV2'[u].expires_at = packSessionV2[u].expires_at
        /\ (Pending(packSession[u]) /\ ~(last'.op = "open_pack_start" /\ last'.signer = u))
               => /\ packSession'[u].created_at = packSession[u].created_at
                  /\ packSession'[u].expires_at = packSession[u].expires_at

C5_OwnerMatchesStatus ==
    \A k \in CardKeys :
        IsCardRecord(cards, k) =>
            /\ cards[k].status \in {"Available", "Reserved"}
                   => cards[k].owner = AuthorityOf(cards[k].vault_state)
            /\ cards[k].status = "UserOwned"
                   => /\ cards[k].owner \in Users
                      /\ holder[cards[k].core_asset] = cards[k].owner

\* C6: a whole-pack claim (claim_pack, claim_pack_v2) commits only on a
\* PendingDecision session with now <= expires_at; after it the number of
\* custody transfers equals the number of records the session reserved, each
\* of those records is UserOwned with owner = the user, and the session is
\* Accepted.
C6_ClaimPostcondition ==
    last.op \in {"claim_pack", "claim_pack_v2"} =>
        LET s == SessionOf(last) IN
        /\ s.state = "Accepted"
        /\ now <= s.expires_at
        /\ Len(last.moved) = Len(ReservedKeys(last))
        /\ \A i \in 1..Len(ReservedKeys(last)) :
               /\ cards[ReservedKeys(last)[i]].status = "UserOwned"
               /\ cards[ReservedKeys(last)[i]].owner = last.signer
SellbackOps == {"sellback_pack", "sellback_pack_v2"}
ExpireOps == {"expire_session", "expire_session_v2"}
Floor(x, d) == x \div d

\* The payment of a committed sellback goes to the user who sold back.
PaysUser(call, amount) ==
    /\ Len(call.payments) = 1
    /\ call.payments[1].amount = amount
    /\ call.payments[1].to = (IF call.payments[1].currency = "Sol" THEN call.signer ELSE "tk_user")

\* C7 (amended): a successful sellback_pack pays exactly
\* floor(S * buyback_bps / 10000) where S is the sum of the session's
\* reference prices, and a successful sellback_pack_v2, whose session stores
\* no reference prices, pays exactly floor(paid_amount * buyback_bps / 10000);
\* the division truncates (prices [100,200,300] at 5000 bps give 300) and a
\* payout of 0 is paid as a success.
C7_SellbackPayout ==
    /\ last.op = "sellback_pack"
           => PaysUser(last, Floor(SumPrices(packSession[last.signer].rarity_prices)
                                       * vault.buyback_bps, 10000))
    /\ last.op = "sellback_pack_v2"
           => PaysUser(last, Floor(packSessionV2[last.signer].paid_amount
                                       * vault.buyback_bps, 10000))
    /\ BuybackPayout(SumPrices(<<100, 200, 300>>), 5000) = [ok |-> TRUE, val |-> 300]

\* The reference prices a session stores: the price list of the full-pack
\* session; the lightweight session has none.
ReferencePrices(call) ==
    IF call.op = "sellback_pack" THEN packSession[call.signer].rarity_prices ELSE <<>>

\* C7 as stated: every successful sellback, of either kind, pays
\* floor(S * buyback_bps / 10000) with S the sum of the session's reference
\* prices.
C7_PayoutFromReferencePrices ==
    last.op \in SellbackOps
        => PaysUser(last, Floor(SumPrices(ReferencePrices(last)) * vault.buyback_bps, 10000))

\* C7 happens: a full-pack sellback has just paid a truncated amount (prices
\* summing to 301 pay 150), or one has just paid 0.
C7_Witness ==
    /\ last.op = "sellback_pack"
    /\ \/ /\ SumPrices(packSession[last.signer].rarity_prices) = 301
          /\ last.payments[1].amount = 150
       \/ /\ SumPrices(packSession[last.signer].rarity_prices) = 1
          /\ last.payments[1].amount = 0

\* C8: after a successful sellback (sellback_pack, sellback_pack_v2) every
\* CardRecord the session reserved is stored Available with owner = the
\* custody authority, no asset has moved, the refund is in the currency the
\* session recorded at open, and the session is Rejected.
C8_SellbackPostcondition ==
    last.op \in SellbackOps =>
        LET s == SessionOf(last) IN
        /\ s.state = "Rejected"
        /\ last.moved = <<>>
        /\ \A i \in 1..Len(last.payments) : last.payments[i].currency = s.currency
        /\ \A i \in 1..Len(ReservedKeys(last)) :
               /\ cards[ReservedKeys(last)[i]].status = "Available"
               /\ cards[ReservedKeys(last)[i]].owner = VAULT_AUTH

\* The records a PendingDecision session reserved are intact: each is still
\* Reserved for the session's user and its asset is still in vault custody.
Intact(u, keys) ==
    \A i \in 1..Len(keys) :
        /\ IsCardRecord(cards, keys[i])
        /\ cards[keys[i]].status = "Reserved"
        /\ cards[keys[i]].owner = u
        /\ holder[cards[keys[i]].core_asset] = VAULT_AUTH

\* C9: for a PendingDecision session whose reserved records are intact, a
\* well-formed claim and a well-formed sellback succeed and expire fails with
\* SessionNotExpired while now <= expires_at (now = expires_at included), and
\* from now = expires_at + 1 on claim and sellback fail with SessionExpired
\* and expire succeeds; no claim or sellback input and expire input succeed
\* at the same clock value.
C9_Boundary ==
    \A u \in Players :
        /\ (Pending(packSessionV2[u]) /\ Intact(u, packSessionV2[u].rare_card_keys)) =>
               LET s == packSessionV2[u]
                   keys == s.rare_card_keys
                   claim == ClaimPackV2Call(u, keys \o AssetsOf(keys))
                   sell == SellbackPackV2Call(u, keys \o AssetsOf(keys) \o GoodTail(s.currency), TRUE)
                   expire == ExpireSessionV2Call(u, keys)
               IN IF now <= s.expires_at
                  THEN claim.ok /\ sell.ok /\ ~expire.ok /\ expire.err = "SessionNotExpired"
                  ELSE /\ ~claim.ok /\ claim.err = "SessionExpired"
                       /\ ~sell.ok /\ sell.err = "SessionExpired"
                       /\ expire.ok
        /\ (Pending(packSession[u]) /\ Intact(u, packSession[u].card_record_keys)) =>
               \A overflow_checks \in BOOLEAN :
               LET s == packSession[u]
                   keys == s.card_record_keys
                   claim == ClaimPackCall(u, keys \o AssetsOf(keys))
                   sell == SellbackPackCall(u, TREASURY, keys \o AssetsOf(keys) \o GoodTail(s.currency),
                                            TRUE, overflow_checks)
                   expire == ExpireSessionCall(u, keys)
               IN IF now <= s.expires_at
                  THEN claim.ok /\ sell.ok /\ ~expire.ok /\ expire.err = "SessionNotExpired"
                  ELSE /\ ~claim.ok /\ claim.err = "SessionExpired"
                       /\ ~sell.ok /\ sell.err = "SessionExpired"
                       /\ expire.ok
        /\ \A cs \in PackBatches : \A assets \in AssetLists(cs) :
               ~(ClaimPackCall(u, cs \o assets).ok
                     /\ ExpireSessionCall(u, packSession[u].card_record_keys).ok)

\* C9 happens: one intact PendingDecision session stands exactly at its
\* expiry, another one tick past it.
C9_Witness ==
    \E u \in Players :
        /\ Pending(packSessionV2[u]) /\ Pending(packSession[u])
        /\ packSessionV2[u].rare_card_keys # <<>>
        /\ Intact(u, packSessionV2[u].rare_card_keys)
        /\ Intact(u, packSession[u].card_record_keys)
        /\ \/ now = packSessionV2[u].expires_at /\ now = packSession[u].expires_at + 1
           \/ now = packSession[u].expires_at /\ now = packSessionV2[u].expires_at + 1

\* C10: a successful expire (expire_session, expire_session_v2) happens only
\* with now > expires_at, moves no payment, leaves every CardRecord the
\* session reserved stored Available with owner = the custody authority, and
\* sets the session Expired.
C10_ExpirePostcondition ==
    last.op \in ExpireOps =>
        LET s == SessionOf(last) IN
        /\ s.state = "Expired"
        /\ now > s.expires_at
        /\ last.payments = <<>>
        /\ \A i \in 1..Len(ReservedKeys(last)) :
               /\ cards[ReservedKeys(last)[i]].status = "Available"
               /\ cards[ReservedKeys(last)[i]].owner = VAULT_AUTH

\* C11: expire is permissionless: for a PendingDecision session of user u
\* whose window has passed (now > expires_at) and whose reserved records are
\* intact, a caller who is neither u nor the vault admin has an expire call
\* on u's session that succeeds, in both flows.
C11_ExpirePermissionless ==
    \A u \in Players :
        /\ ( /\ Pending(packSessionV2[u])
             /\ now > packSessionV2[u].expires_at
             /\ Intact(u, packSessionV2[u].rare_card_keys) )
           => \E caller \in Users \ {u, vault.admin} : \E user \in Users :
                  ExpireSessionV2As(caller, user, u, packSessionV2[u].rare_card_keys).ok
        /\ ( /\ Pending(packSession[u])
             /\ now > packSession[u].expires_at
             /\ Intact(u, packSession[u].card_record_keys) )
           => \E caller \in Users \ {u, vault.admin} : \E user \in Users :
                  ExpireSessionAs(caller, user, u, packSession[u].card_record_keys).ok

\* C12: with batched claims, finalize_claim sets the session Accepted only if
\* every CardRecord in the session's slots is UserOwned with owner = user at
\* that time; while a slot of a PendingDecision session is still Reserved,
\* finalize_claim fails for every list of records the caller supplies, the
\* empty and the partial lists included.
C12_FinalizeVerifiesSlots ==
    /\ last.op = "finalize_claim" =>
           \A i \in 1..Len(packSession[last.signer].card_record_keys) :
               LET k == packSession[last.signer].card_record_keys[i] IN
               cards[k].status = "UserOwned" /\ cards[k].owner = last.signer
    /\ \A u \in Players :
           ( /\ Pending(packSession[u])
             /\ \E i \in 1..Len(packSession[u].card_record_keys) :
                    cards[packSession[u].card_record_keys[i]].status = "Reserved" )
           => \A cs \in BatchLists : ~FinalizeClaimCall(u, cs).ok

\* A session as the admin close / reset operations are claimed to leave it.
Cleared(s) ==
    /\ s.state = "Uninitialized"
    /\ s.paid_amount = 0
    /\ s.created_at = 0
    /\ s.expires_at = 0

\* C13: admin_force_close_v2, admin_force_close_session and
\* admin_reset_session succeed for the vault admin on an existing session in
\* every session state and at every clock value, fail with Unauthorized for
\* any other signer, and leave the session Uninitialized with paid_amount 0,
\* created_at 0, expires_at 0 and no reserved record keys.
C13_AdminCloseAlwaysSucceeds ==
    \A u \in Players :
        /\ packSessionV2[u].exists =>
               LET keys == packSessionV2[u].rare_card_keys
                   r == AdminForceCloseV2Call(vault.admin, u, keys) IN
               /\ r.ok /\ Cleared(r.session) /\ r.session.rare_card_keys = <<>>
               /\ \A other \in Users :
                      LET q == AdminForceCloseV2Call(other, u, keys) IN
                      ~q.ok /\ q.err = "Unauthorized"
        /\ packSession[u].exists =>
               LET keys == packSession[u].card_record_keys
                   r == AdminForceCloseSessionCall(vault.admin, u, keys)
                   t == AdminResetSessionCall(vault.admin, u, keys) IN
               /\ r.ok /\ Cleared(r.session) /\ r.session.card_record_keys = <<>>
               /\ t.ok /\ Cleared(t.session) /\ t.session.card_record_keys = <<>>
               /\ \A other \in Users :
                      LET q == AdminForceCloseSessionCall(other, u, keys)
                          w == AdminResetSessionCall(other, u, keys) IN
                      /\ ~q.ok /\ q.err = "Unauthorized"
                      /\ ~w.ok /\ w.err = "Unauthorized"

AdminFreeOps == {"admin_reset_cards", "admin_force_close_v2",
                 "admin_force_close_session", "admin_reset_session"}
\* The supplied account is a CardRecord whose vault reference is the vault.
MatchesVault(cm, k) == IsCardRecord(cm, k) /\ cm[k].vault_state = GACHA_VAULT
\* Of a result's records: the matching entries of the batch are Available
\* with owner = custody authority, the others are as they were.
Released(r, cs) ==
    /\ r.ok
    /\ \A i \in 1..Len(cs) :
           IF MatchesVault(cards, cs[i])
           THEN r.cards[cs[i]].status = "Available" /\ r.cards[cs[i]].owner = VAULT_AUTH
           ELSE cs[i] \in CardKeys => r.cards[cs[i]] = cards[cs[i]]

\* C14: in admin_reset_cards, admin_force_close_v2, admin_force_close_session
\* and admin_reset_session, for every supplied batch, each supplied record
\* whose vault reference matches the vault ends stored Available with owner =
\* custody authority, each supplied record whose vault reference does not
\* match is left unchanged, and a mismatching entry never makes the call fail.
C14_BestEffortRelease ==
    /\ last.op \in AdminFreeOps =>
           \A i \in 1..Len(last.accounts) :
               MatchesVault(cards, last.accounts[i]) =>
                   /\ cards[last.accounts[i]].status = "Available"
                   /\ cards[last.accounts[i]].owner = VAULT_AUTH
    /\ \A cs \in AdminLists :
           /\ Released(AdminResetCardsCall(vault.admin, cs), cs)
           /\ \A u \in Players :
                  /\ (packSessionV2[u].exists /\ Len(cs) >= Len(packSessionV2[u].rare_card_keys))
                         => Released(AdminForceCloseV2Call(vault.admin, u, cs),
                                     SubSeq(cs, 1, Len(packSessionV2[u].rare_card_keys)))
                  /\ packSession[u].exists
                         => Released(AdminForceCloseSessionCall(vault.admin, u, cs), cs)
                  /\ (packSession[u].exists /\ ~Pending(packSession[u]))
                         => Released(AdminResetSessionCall(vault.admin, u, cs), cs)

\* C15: a successful list_card leaves the CardRecord Reserved with owner =
\* custody authority, the asset in vault custody and the Listing Active with
\* seller = caller and the given price; it moves the asset only when the
\* record's owner is not already the custody authority; on an existing
\* CardRecord it fails when the declared template id or rarity differs from
\* the stored one, when the caller is neither the record's owner nor is the
\* record vault-held, and when the status is neither UserOwned nor
\* Available; an asset whose listing is Active cannot be listed again.
C15_ListCard ==
    \A seller \in Users, a \in MarketAssets, price \in ListPrices,
       template_id \in ListTemplates, rarity \in ListRarities :
        LET k == MarketKey(a)
            r == ListCardCall(seller, a, price, NoKey, template_id, rarity) IN
        /\ r.ok =>
               /\ r.cards[k].status = "Reserved" /\ r.cards[k].owner = MARKET_AUTH
               /\ r.cards[k].core_asset = a
               /\ r.holder[a] = MARKET_AUTH
               /\ r.listing.exists /\ r.listing.status = "Active"
               /\ r.listing.seller = seller /\ r.listing.price_lamports = price
               /\ r.listing.core_asset = a
               /\ (r.moved # <<>>) =
                      (~IsCardRecord(cards, k) \/ cards[k].owner # MARKET_AUTH)
               /\ \A j \in CardKeys \ {k} : r.cards[j] = cards[j]
        /\ IsCardRecord(cards, k) =>
               /\ (cards[k].template_id # template_id \/ cards[k].rarity # rarity) => ~r.ok
               /\ (cards[k].owner # seller /\ cards[k].owner # MARKET_AUTH)
                      => ~r.ok
               /\ cards[k].status \notin {"UserOwned", "Available"}
                      => (~r.ok /\ (cards[k].template_id = template_id
                                       /\ cards[k].rarity = rarity
                                       => r.err = "CardNotAvailable"))
        /\ (listing[a].exists /\ listing[a].status = "Active") => ~r.ok

\* C15 happens: the buyer of an earlier sale has just listed the asset again
\* at price 7 on its existing record, and the listing is Active.
C15_Witness ==
    /\ last.op = "list_card"
    /\ last.signer = "u2"
    /\ listing["b1"].exists /\ listing["b1"].status = "Active"
    /\ listing["b1"].price_lamports = 7
    /\ cards["m1"].status = "Reserved"
    /\ holder["b1"] = MARKET_AUTH

\* C16: cancel_listing fails unless the Listing is Active and the caller
\* is the listing's recorded seller: it fails with InvalidListingState on a
\* Filled or Cancelled listing and with Unauthorized for any other signer of
\* an Active one.
C16_CancelGuards ==
    \A signer \in Users \cup {ADMIN}, a \in MarketAssets :
        LET r == CancelListingCall(signer, a) IN
        /\ r.ok => (listing[a].exists /\ listing[a].status = "Active"
                       /\ listing[a].seller = signer)
        /\ (listing[a].exists /\ listing[a].status \in {"Filled", "Cancelled"})
               => (~r.ok /\ r.err = "InvalidListingState")
        /\ (listing[a].exists /\ listing[a].status = "Active" /\ listing[a].seller # signer)
               => (~r.ok /\ r.err = "Unauthorized")

\* C16 happens: the listing is Active and recorded for one seller while the
\* other user and the admin are not its seller.
C16_Witness ==
    /\ listing["b1"].exists
    /\ listing["b1"].status = "Active"
    /\ listing["b1"].seller = "u1"
    /\ CancelListingCall("u1", "b1").ok

\* C17: list_card followed by cancel_listing by the same seller is a round
\* trip: a cancel_listing step leaves the CardRecord UserOwned with owner =
\* the seller recorded by the listing (its caller), the Listing Cancelled and
\* the asset back in the seller's custody, and the record's template id and
\* rarity are the ones the record held while listed; a list_card step
\* records the caller as seller and keeps the template id and rarity of an
\* existing record.
C17_RoundTripStep ==
    \A a \in MarketAssets :
        LET k == MarketKey(a) IN
        /\ (last'.op = "cancel_listing" /\ last'.accounts[2] = a) =>
               /\ listing[a].status = "Active"
               /\ last'.signer = listing[a].seller
               /\ cards'[k].status = "UserOwned"
               /\ cards'[k].owner = listing[a].seller
               /\ cards'[k].template_id = cards[k].template_id
               /\ cards'[k].rarity = cards[k].rarity
               /\ cards'[k].core_asset = a
               /\ holder[a] = MARKET_AUTH
               /\ holder'[a] = listing[a].seller
               /\ listing'[a] = [listing[a] EXCEPT !.status = "Cancelled"]
        /\ (last'.op = "list_card" /\ last'.accounts[2] = a) =>
               /\ listing'[a].seller = last'.signer
               /\ holder[a] = last'.signer
               /\ holder'[a] = MARKET_AUTH
               /\ IsCardRecord(cards, k) =>
                      /\ cards'[k].template_id = cards[k].template_id
                      /\ cards'[k].rarity = cards[k].rarity
C17_RoundTrip == [][C17_RoundTripStep]_vars

\* C17 happens: the seller who listed the asset has just cancelled and holds
\* it again, with the record UserOwned.
C17_Witness ==
    /\ last.op = "cancel_listing"
    /\ listing["b1"].status = "Cancelled"
    /\ holder["b1"] = last.signer
    /\ cards["m1"].status = "UserOwned" /\ cards["m1"].owner = last.signer
    /\ cards["m1"].template_id = 2

\* C18: in a successful fill_listing the fee floor(price * marketplace_fee_bps
\* / 10000) is paid by the buyer to the account in the treasury slot when it
\* is positive and price - fee is paid by the buyer to the account in the
\* seller slot, so the payments sum to the price (price 1000 at 250 bps: fee
\* 25 and 975 for the seller); when either transfer fails the call fails.
C18_FillPayments ==
    /\ last.op = "fill_listing" =>
           LET a == last.accounts[2]
               price == listing[a].price_lamports
               fee == Floor(price * marketVault.marketplace_fee_bps, 10000)
               feePart == IF fee > 0
                          THEN <<[from |-> last.signer, to |-> last.accounts[4],
                                  amount |-> fee, currency |-> "Sol"]>>
                          ELSE <<>>
           IN /\ last.payments = feePart \o
                     <<[from |-> last.signer, to |-> last.accounts[3],
                        amount |-> price - fee, currency |-> "Sol"]>>
              /\ SumPrices([i \in 1..Len(last.payments) |-> last.payments[i].amount]) = price
    /\ \A buyer \in Users, seller \in Users, a \in MarketAssets :
       \A card_record \in FillRecords(a), feeOk \in BOOLEAN, sellerOk \in BOOLEAN :
           LET r == FillListingCall(buyer, seller, TREASURY, a, card_record, feeOk, sellerOk)
               f == ListingFee(listing[a].price_lamports, marketVault.marketplace_fee_bps) IN
           r.ok => (sellerOk /\ (f.val > 0 => feeOk))
    /\ ListingFee(1000, 250) = [ok |-> TRUE, val |-> 25]
    /\ 1000 - ListingFee(1000, 250).val = 975

\* C18 happens: a listing at price 1000 has just been filled with both
\* transfers, 25 and 975.
C18_Witness ==
    /\ last.op = "fill_listing"
    /\ Len(last.payments) = 2
    /\ last.payments[1].amount = 25 /\ last.payments[1].to = TREASURY
    /\ last.payments[2].amount = 975

\* C19: after a successful fill_listing the listed asset's custody is the
\* buyer, the listed asset's CardRecord is UserOwned with owner = buyer and
\* the Listing is Filled; on a Filled listing every fill_listing and
\* cancel_listing fails.
C19_FillPostcondition ==
    /\ last.op = "fill_listing" =>
           LET a == last.accounts[2] IN
           /\ holder[a] = last.signer
           /\ listing[a].status = "Filled"
           /\ cards[MarketKey(a)].status = "UserOwned"
           /\ cards[MarketKey(a)].owner = last.signer
    /\ \A a \in MarketAssets :
           (listing[a].exists /\ listing[a].status = "Filled") =>
               /\ \A signer \in Users : ~CancelListingCall(signer, a).ok
               /\ \A buyer \in Users, seller \in Users :
                  \A card_record \in FillRecords(a) :
                      ~FillListingCall(buyer, seller, TREASURY, a, card_record, TRUE, TRUE).ok

Terminal == {"Filled", "Cancelled"}
C20_TerminalStep ==
    \A a \in MarketAssets :
        (listing[a].exists /\ listing[a].status \in Terminal) =>
            /\ \A signer \in Users : ~CancelListingCall(signer, a).ok
            /\ \A buyer \in Users, seller \in Users :
               \A card_record \in FillRecords(a) :
                   ~FillListingCall(buyer, seller, TREASURY, a, card_record, TRUE, TRUE).ok
            /\ listing'[a].status # listing[a].status =>
                   \/ last'.op = "list_card" /\ listing'[a].status = "Active"
                   \/ last'.op = "admin_prune_listing" /\ listing'[a].status = "Cancelled"
UserOps == {"open_pack", "open_pack_start", "claim_pack", "claim_pack_v2",
            "claim_pack_batch", "claim_pack_batch3", "finalize_claim",
            "sellback_pack", "sellback_pack_v2", "expire_session",
            "expire_session_v2", "user_reset_session", "list_card",
            "cancel_listing", "fill_listing", "redeem_burn"}
Retired(status) == status \in {"Burned", "Deprecated"}

C21_RetiredStep ==
    \A k \in CardKeys :
        (IsCardRecord(cards, k) /\ Retired(cards[k].status) /\ last'.op \in UserOps)
            => cards'[k].status \notin {"Available", "Reserved", "UserOwned", "RedeemPending"}

\* C21: once a CardRecord is Burned or Deprecated, no step of an operation
\* signed by an ordinary user (open, claim, sellback, expire,
\* user_reset_session, list_card, cancel_listing, fill_listing, redeem_burn)
\* changes its status to Available, Reserved, UserOwned or RedeemPending.
C21_RetiredStaysRetired == [][C21_RetiredStep]_vars

\* C22: a set_reward_config call succeeds only when its signer is the vault
\* admin and the minting authority of the reward mint it names is the
\* vault's custody authority; so the reward fields of the vault change only
\* in such a call.
C22_RewardConfigGuard ==
    last.op = "set_reward_config"
        => /\ last.signer = vault.admin
           /\ MintAuthority(vault.mochi_mint) = vault.vault_authority

Resolved(s) == s.state \in {"Accepted", "Rejected", "Expired"}
Distinct(q) == \A i \in 1..Len(q), j \in 1..Len(q) : i # j => q[i] # q[j]

\* C23: whenever a user's session, of either variant, is Accepted, Rejected
\* or Expired, an open by that user with a valid payment and distinct
\* Available records succeeds and leaves that session PendingDecision, with
\* no reset or close in between.
C23_SessionReusable ==
    \A u \in Players, currency \in Currencies :
        /\ Resolved(packSession[u]) =>
               \A cs \in PackBatches :
                   (Distinct(cs) /\ \A i \in 1..Len(cs) : ValidForOpen(cs[i]))
                       => LET r == OpenPackStartCall(u, currency, <<1>>,
                                                     cs \o GoodTail(currency), TRUE) IN
                          r.ok /\ r.session.state = "PendingDecision"
        /\ Resolved(packSessionV2[u]) =>
               \A cs \in CardBatches :
                   (Distinct(cs) /\ \A i \in 1..Len(cs) :
                                        ValidForOpenPack(cs[i], cards[cs[i]].template_id))
                       => LET r == OpenPackCall(u, currency, DeclaredTemplates(cs),
                                                cs \o GoodTail(currency), GoodReward(u), TRUE) IN
                          r.ok /\ r.session.state = "PendingDecision"

\* The lifecycle edge a step may take on one session: s before, t after, op
\* the operation that committed; open, accept, reject, expire and close are
\* the operations of the session's variant.
LifecycleEdge(s, t, op, open, accept, reject, expire, close) ==
    /\ op \in open => s.state # "PendingDecision"
    /\ (t.state = "PendingDecision" /\ s.state # "PendingDecision") => op \in open
    /\ (t.state = "Accepted" /\ s.state # "Accepted")
           => s.state = "PendingDecision" /\ op \in accept
    /\ (t.state = "Rejected" /\ s.state # "Rejected")
           => s.state = "PendingDecision" /\ op \in reject
    /\ (t.state = "Expired" /\ s.state # "Expired")
           => s.state = "PendingDecision" /\ op \in expire
    /\ (t.state = "Uninitialized" /\ s.state # "Uninitialized") => op \in close
    /\ op \in {"claim_pack_batch", "claim_pack_batch3"} => t.state = s.state

C24_LifecycleStep ==
    \A u \in Users :
        /\ LifecycleEdge(packSession[u], packSession'[u],
                         IF last'.signer = u \/ last'.signer = ADMIN THEN last'.op ELSE "none",
                         {"open_pack_start"}, {"claim_pack", "finalize_claim"},
                         {"sellback_pack"}, {"expire_session", "admin_force_expire"},
                         {"admin_reset_session", "admin_force_close_session"})
        /\ LifecycleEdge(packSessionV2[u], packSessionV2'[u],
                         IF last'.signer = u \/ last'.signer = ADMIN THEN last'.op ELSE "none",
                         {"open_pack"}, {"claim_pack_v2"},
                         {"sellback_pack_v2"}, {"expire_session_v2"},
                         {"admin_force_close_v2"})

\* C24: a session changes state only along the lifecycle: into
\* PendingDecision only by a successful open from a state other than
\* PendingDecision; into Accepted only from PendingDecision by a whole-pack
\* claim or finalize_claim (claim_pack_batch and claim_pack_batch3 leave the
\* state as it is); into Rejected only from PendingDecision by a sellback;
\* into Expired only from PendingDecision by expire or admin_force_expire;
\* into Uninitialized only by the admin's reset and force-close operations.
C24_LifecycleEdges == [][C24_LifecycleStep]_vars

\* floor(x * bps / 10000) computed without leaving the word.
ExactFloor(x, bps) ==
    (x \div BPS_DENOMINATOR) * bps + ((x % BPS_DENOMINATOR) * bps) \div BPS_DENOMINATOR

\* C25: price and payout arithmetic never yields a wrapped value.  A
\* well-formed sellback_pack fails with the overflow error and no effect when
\* the sum of the session's reference prices leaves the word, and otherwise
\* succeeds paying exactly floor(sum * buyback_bps / 10000), which fits the
\* word; a well-formed sellback_pack_v2 succeeds paying exactly
\* floor(paid_amount * buyback_bps / 10000); a well-formed fill_listing
\* succeeds with fee exactly floor(price * fee_bps / 10000): the arithmetic
\* is widened, so a product that leaves the word does not fail the call.
C25_NoWrapExactFloor ==
    /\ \A u \in Players, overflow_checks \in BOOLEAN :
           (Pending(packSession[u]) /\ WithinWindow(packSession[u])
                /\ Intact(u, packSession[u].card_record_keys)) =>
               LET s == packSession[u]
                   keys == s.card_record_keys
                   r == SellbackPackCall(u, TREASURY,
                                         keys \o AssetsOf(keys) \o GoodTail(s.currency),
                                         TRUE, overflow_checks)
               IN IF SumPrices(s.rarity_prices) > WordMax
                  THEN ~r.ok /\ r.err = "MathOverflow"
                  ELSE r.ok /\ r.payments[1].amount
                                   = ExactFloor(SumPrices(s.rarity_prices), vault.buyback_bps)
    /\ \A u \in Players :
           (Pending(packSessionV2[u]) /\ WithinWindow(packSessionV2[u])
                /\ Intact(u, packSessionV2[u].rare_card_keys)) =>
               LET s == packSessionV2[u]
                   keys == s.rare_card_keys
                   r == SellbackPackV2Call(u, keys \o AssetsOf(keys) \o GoodTail(s.currency), TRUE)
               IN r.ok /\ r.payments[1].amount = ExactFloor(s.paid_amount, vault.buyback_bps)
    /\ \A a \in MarketAssets, buyer \in Users :
           (listing[a].exists /\ listing[a].status = "Active"
                /\ IsCardRecord(cards, MarketKey(a))
                /\ CanTransfer(holder, a, MARKET_AUTH)) =>
               LET l == listing[a]
                   fee == ExactFloor(l.price_lamports, marketVault.marketplace_fee_bps)
                   r == FillListingCall(buyer, l.seller, TREASURY, a, MarketKey(a), TRUE, TRUE)
               IN /\ r.ok
                  /\ r.payments[Len(r.payments)].amount = l.price_lamports - fee
                  /\ fee > 0 => r.payments[1].amount = fee

\* The operations that require the vault admin as signer and repair listings.
AdminRepairOps == {"admin_force_cancel_listing", "emergency_return_asset",
                   "admin_rescue_legacy_listing"}

C26_RebuiltStep ==
    \A k \in CardKeys :
        (cards[k] # NoCard /\ ~IsCardRecord(cards, k) /\ cards'[k] # cards[k])
            => last'.op \in AdminRepairOps /\ last'.signer = marketVault.admin

\* C26: a stored CardRecord that fails validation is replaced by a rebuilt
\* default only in a step of an operation that requires the vault admin as
\* signer; no operation an ordinary user can call (cancel_listing in
\* particular) goes on with, or writes back, a rebuilt record.
C26_RebuildOnlyByAdmin == [][C26_RebuiltStep]_vars

\* C27: admin_rescue_legacy_listing succeeds only when the signer is the
\* marketplace vault's admin, the Listing's stored vault is the legacy vault
\* passed, the seller passed is the Listing's seller, and the custody
\* authority passed is the one derived for the legacy vault under the
\* marketplace scheme or under the gacha scheme; every other call fails, and
\* a failed call commits nothing.
C27_RescueGuards ==
    /\ \A signer \in Users \cup {ADMIN}, v \in VaultStates,
          a \in MarketAssets \cup LegacyAssets, authority \in SuppliedAuthorities,
          seller \in Users, readback \in ShiftedReads :
           AdminRescueLegacyListingCall(signer, v, a, authority, seller, readback).ok
               => /\ signer = marketVault.admin
                  /\ listing[a].vault_state = v
                  /\ listing[a].seller = seller
                  /\ authority \in {DerivedAuthority("market", v), DerivedAuthority("gacha", v)}
    /\ last.op = "admin_rescue_legacy_listing"
           => /\ last.signer = marketVault.admin
              /\ listing[last.accounts[2]].vault_state = last.accounts[1]
              /\ listing[last.accounts[2]].seller = last.accounts[4]
              /\ last.accounts[3] \in {DerivedAuthority("market", last.accounts[1]),
                                       DerivedAuthority("gacha", last.accounts[1])}

\* C27 happens: a rescue has just been accepted, and in the same state the
\* rescue is refused for a foreign authority, for a signer who is not the
\* admin, for another seller, and for the legacy Listing whose stored vault
\* is not the vault passed.
C27_Witness ==
    /\ last.op = "admin_rescue_legacy_listing"
    /\ AdminRescueLegacyListingCall(ADMIN, MARKET_VAULT, "b1", "u1", "u2", Drifted).err
           = "VaultMismatch"
    /\ AdminRescueLegacyListingCall("u1", MARKET_VAULT, "b1", MARKET_AUTH, "u2", Drifted).err
           = "Unauthorized"
    /\ AdminRescueLegacyListingCall(ADMIN, MARKET_VAULT, "b1", MARKET_AUTH, "u1", Drifted).err
           = "Unauthorized"
    /\ listing["a3"].vault_state # GACHA_VAULT
    /\ AdminRescueLegacyListingCall(ADMIN, GACHA_VAULT, "a3", VAULT_AUTH, "u2", Drifted).err
           = "VaultMismatch"

\* The batches and template lists open_pack is tried on for C28: every batch
\* of up to MaxBatch records, one batch of three and one of four records,
\* and for each batch its own templates, a wrong template in one slot, one
\* template more than records, and four templates.
C28_Batches == CardBatches \cup {<<"c1", "c2", "c3">>, <<"c1", "c2", "c3", "c1">>}
C28_Templates(cs) ==
    TemplateLists(cs) \cup {DeclaredTemplates(cs) \o <<1>>, <<1, 2, 3, 1>>}

\* C28: open_pack fails when more than 3 templates are declared, when fewer
\* records than templates are passed, or when one of the records is below
\* Rare or carries another template id than the one declared at its
\* position; a call that succeeds reserves exactly the declared records (at
\* most 3, pairwise distinct, each Rare or above with the declared template),
\* changes no other record, and stores exactly their keys in the session.
C28_OpenPackReserves ==
    /\ \A u \in Players, currency \in Currencies, cs \in C28_Batches :
         \A ts \in C28_Templates(cs) :
           LET r == OpenPackCall(u, currency, ts, cs \o GoodTail(currency), GoodReward(u), TRUE)
               bad == \/ Len(ts) > 3
                      \/ Len(cs) < Len(ts)
                      \/ \E i \in 1..Len(ts) :
                            \/ cards[cs[i]].rarity \in {"Common", "Uncommon", "Energy"}
                            \/ cards[cs[i]].template_id # ts[i]
           IN
           /\ bad => ~r.ok
           /\ r.ok =>
                LET keys == r.session.rare_card_keys IN
                /\ Len(keys) <= 3 /\ Distinct(keys)
                /\ keys = SubSeq(cs, 1, Len(ts))
                /\ {k \in CardKeys : r.cards[k] # cards[k]} = {keys[i] : i \in 1..Len(keys)}
                /\ \A i \in 1..Len(keys) :
                      /\ cards[keys[i]].status = "Available"
                      /\ r.cards[keys[i]] = [cards[keys[i]] EXCEPT !.status = "Reserved",
                                                                   !.owner = u]
    /\ last.op = "open_pack" =>
           LET s == packSessionV2[last.signer] IN
           /\ s.rare_card_keys = last.accounts
           /\ Len(s.rare_card_keys) <= 3 /\ Distinct(s.rare_card_keys)
           /\ \A i \in 1..Len(s.rare_card_keys) :
                 LET rec == cards[s.rare_card_keys[i]] IN
                 /\ rec.status = "Reserved" /\ rec.owner = last.signer
                 /\ rec.rarity \notin {"Common", "Uncommon", "Energy"}
                 /\ rec.template_id = s.rare_templates[i]

\* C28 happens: an open_pack has just reserved one rare record, and an open
\* by a user without a session is refused for a Common record, for a wrong
\* template, for four templates, for fewer records than templates and for
\* the same record passed twice.
C28_Witness ==
    /\ last.op = "open_pack" /\ last.accounts = <<"c1">>
    /\ cards["c1"].status = "Reserved"
    /\ ~OpenPackSessionBlocks(packSessionV2["u2"])
    /\ OpenPackCall("u2", "Sol", <<3>>, <<"c3">>, GoodReward("u2"), TRUE).err
           = "CardTooCommon"
    /\ OpenPackCall("u2", "Sol", <<9>>, <<"c2">>, GoodReward("u2"), TRUE).err
           = "TemplateMismatch"
    /\ OpenPackCall("u2", "Sol", <<1, 2, 3, 1>>, <<"c1", "c2", "c3", "c1">>,
                    GoodReward("u2"), TRUE).err = "TooManyRareCards"
    /\ OpenPackCall("u2", "Sol", <<2, 1>>, <<"c2">>, GoodReward("u2"), TRUE).err
           = "InvalidCardCount"
    /\ OpenPackCall("u2", "Sol", <<2, 2>>, <<"c2", "c2">>, GoodReward("u2"), TRUE).err
           = "CardNotAvailable"

\* The records reserved for user A's pending sessions.
ReservedFor(A) ==
    {k \in CardKeys :
        /\ cards[k].status = "Reserved" /\ cards[k].owner = A
        /\ \/ /\ packSessionV2[A].state = "PendingDecision"
              /\ \E i \in 1..Len(packSessionV2[A].rare_card_keys) :
                    packSessionV2[A].rare_card_keys[i] = k
           \/ /\ packSession[A].state = "PendingDecision"
              /\ \E i \in 1..Len(packSession[A].card_record_keys) :
                    packSession[A].card_record_keys[i] = k}

C29_IsolatedStep ==
    \A A \in Users :
        (last'.op \in UserOps /\ last'.signer # A)
            => /\ packSessionV2'[A] = packSessionV2[A]
               /\ packSession'[A] = packSession[A]
               /\ \A k \in ReservedFor(A) :
                     /\ cards'[k].status = cards[k].status
                     /\ cards'[k].owner = cards[k].owner

\* C29: for two distinct users A and B, no step of an operation signed by B
\* (open, claim, finalize, sellback, expire, user_reset_session, list_card,
\* cancel_listing, fill_listing, redeem_burn) changes A's session records or
\* the status or owner of a CardRecord that is Reserved for a PendingDecision
\* session of A.
C29_ReservationsIsolated == [][C29_IsolatedStep]_vars

ClaimOps == {"claim_pack", "claim_pack_v2", "claim_pack_batch", "claim_pack_batch3"}

C30_CustodyStep ==
    last'.op \in ClaimOps
        => /\ \A i \in 1..Len(last'.accounts) :
                 /\ cards[last'.accounts[i]].status = "Reserved"
                 /\ cards[last'.accounts[i]].owner = last'.signer
           /\ {a \in DOMAIN holder : holder'[a] # holder[a]}
                 = {cards[last'.accounts[i]].core_asset : i \in 1..Len(last'.accounts)}
           /\ \A a \in DOMAIN holder :
                 holder'[a] # holder[a] => holder[a] = VAULT_AUTH /\ holder'[a] = last'.signer

\* C30: in every step of a claim (claim_pack, claim_pack_v2, claim_pack_batch,
\* claim_pack_batch3) the assets that leave vault custody are exactly the
\* underlying assets of the records claimed, each of which was Reserved for
\* the signer before the step, and they go to the signer; so a user never
\* obtains an asset whose CardRecord was not reserved for them.
C30_RightAssetOnce == [][C30_CustodyStep]_vars

\* What C31 promises of a repair call r on asset a with record k.
Returned(r, a, k, seller) ==
    /\ r.ok
    /\ r.holder[a] = seller
    /\ r.listing.status = "Cancelled"
    /\ r.cards[k].status = "UserOwned" /\ r.cards[k].owner = seller

\* C31: admin_force_cancel_listing, emergency_return_asset and
\* admin_rescue_legacy_listing, called by the admin with the listing's own
\* seller on a listing whose asset the vault authority holds and whose
\* CardRecord has the canonical size, succeed and leave the asset with the
\* listing's seller, the Listing Cancelled and the stored CardRecord readable
\* as UserOwned with owner = listing.seller.
C31_RepairReturnsAsset ==
    \A a \in DOMAIN listing, readback \in ShiftedReads :
        LET l == listing[a] IN
        /\ (/\ l.exists /\ a \in MarketAssets /\ l.vault_state = MARKET_VAULT
            /\ holder[a] = MARKET_AUTH
            /\ RecordSpace(MarketKey(a)) = 8 + CardRecord_SIZE)
               => /\ Returned(AdminForceCancelListingCall(ADMIN, a, l.seller, readback),
                              a, MarketKey(a), l.seller)
                  /\ Returned(EmergencyReturnAssetCall(ADMIN, a, l.seller, readback),
                              a, MarketKey(a), l.seller)
        /\ \A v \in VaultStates :
             \A authority \in {DerivedAuthority("market", v), DerivedAuthority("gacha", v)} :
               (/\ l.exists /\ ListingKey(v, a) = a /\ l.vault_state = v
                /\ holder[a] = authority
                /\ RecordSpace(CardKeyOf(v, a)) = 8 + CardRecord_SIZE)
                   => Returned(AdminRescueLegacyListingCall(ADMIN, v, a, authority, l.seller,
                                                            readback),
                               a, CardKeyOf(v, a), l.seller)

\* C32: every gacha-vault CardRecord that is Reserved with owner = u is
\* referenced by a session of u that is PendingDecision: no operation of a
\* user leaves a record Reserved once the session that reserved it has left
\* PendingDecision or has been overwritten by a new open.
C32_NoOrphanedReservations ==
    \A k \in GachaKeys : \A u \in Users :
        (/\ cards[k].vault_state = GACHA_VAULT
         /\ cards[k].status = "Reserved" /\ cards[k].owner = u)
            => k \in ReservedFor(u)

\* C33: a lightweight session that is PendingDecision past its window can
\* always be expired: expire_session_v2 called with the records the session
\* recorded succeeds in every reachable state, whatever operations of users
\* (redeem_burn, fill_listing) came before, so the session can always leave
\* PendingDecision.
C33_ExpireAlwaysEnabled ==
    \A u \in Players :
        (packSessionV2[u].state = "PendingDecision" /\ PastWindow(packSessionV2[u]))
            => ExpireSessionV2Call(u, packSessionV2[u].rare_card_keys).ok

\* C34: with buyback_bps <= 10000, the payout of a successful sellback
\* (sellback_pack, sellback_pack_v2) never exceeds the paid_amount the
\* session recorded at open, whatever arguments the caller gave to the open.
C34_PayoutAtMostPaid ==
    (last.op \in SellbackOps /\ vault.buyback_bps <= 10000)
        => LET paid == IF last.op = "sellback_pack"
                       THEN packSession[last.signer].paid_amount
                       ELSE packSessionV2[last.signer].paid_amount
           IN \A i \in 1..Len(last.payments) : last.payments[i].amount <= paid

\* C35: in every successful fill_listing the account passed as seller, which
\* is credited with seller_amount, is the seller recorded in the Listing.
C35_SellerIsListingSeller ==
    last.op = "fill_listing"
        => /\ last.accounts[3] = listing[last.accounts[2]].seller
           /\ \A i \in 1..Len(last.payments) :
                 last.payments[i].to \in {listing[last.accounts[2]].seller, last.accounts[4]}

C36_FillStep ==
    last'.op = "fill_listing"
        => LET k == last'.accounts[1]
               a == last'.accounts[2] IN
           /\ cards[k].core_asset = listing[a].core_asset
           /\ cards[k].vault_state = MARKET_VAULT
           /\ \A j \in CardKeys \ {MarketKey(a)} : cards'[j] = cards[j]

\* C36: a successful fill_listing is given the CardRecord of the listed
\* asset (its asset reference is the Listing's asset and its vault the
\* marketplace vault) and changes no other CardRecord.
C36_FillChangesListedRecordOnly == [][C36_FillStep]_vars

C37_BurnStep ==
    last'.op = "redeem_burn"
        => LET k == last'.accounts[1]
               a == last'.accounts[2] IN
           /\ cards[k].owner = last'.signer /\ cards[k].status = "UserOwned"
           /\ cards[k].core_asset = a
           /\ cards'[k].status = "Burned"
           /\ {x \in DOMAIN holder : holder'[x] # holder[x]} = {a}
           /\ ~\E j \in CardKeys :
                 /\ cards[j].core_asset = a /\ holder[a] = VAULT_AUTH
                 /\ cards[j].status \in {"Available", "Reserved"}

\* C37: a successful redeem_burn is signed by the CardRecord's owner, finds
\* the record UserOwned, burns exactly the asset that record refers to and
\* leaves the record Burned; it never burns an asset the vault holds for an
\* Available or a Reserved record.
C37_BurnsOwnRedeemedAsset == [][C37_BurnStep]_vars

C38_AdminStep ==
    /\ vault'.admin = vault.admin
    /\ vault' # vault => last'.signer = vault.admin
    /\ last'.op = "migrate_vault_state"
           => /\ vault'.core_collection = vault.core_collection
              /\ last.op # "migrate_vault_state"

\* C38: the vault's admin is the same in every state after initialize_vault:
\* no step changes it, a step that changes a field of the vault's
\* configuration is signed by the admin, and a migrate_vault_state step
\* preserves the admin and the collection identifier and is not repeated.
C38_AdminFixed == [][C38_AdminStep]_vars

\* The sum of a field over every buyer's Contribution.
RECURSIVE SumOfBuyers(_, _)
SumOfBuyers(f, S) ==
    IF S = {} THEN 0
    ELSE LET u == CHOOSE x \in S : TRUE IN f[u] + SumOfBuyers(f, S \ {u})
\* A contribution the claim says must fail in the current state.
MustRefuse(amount) ==
    \/ sale.is_canceled
    \/ seedNow < sale.start_ts
    \/ seedNow > sale.end_ts
    \/ sale.sol_cap_lamports > 0 /\ sale.raised_lamports + amount > sale.sol_cap_lamports
    \/ /\ sale.token_cap > 0
       /\ sale.sold_tokens + amount * sale.price_tokens_per_sol > sale.token_cap
\* C39: seed sale accounting. In every state reached by init_sale,
\* contribute, claim and cancel_sale: raised_lamports is the sum of the
\* buyers' contributed_lamports and sold_tokens the sum of their
\* tokens_owed; each total is within its cap when the cap is non-zero; a
\* contribute that would exceed a cap, lies outside [start_ts, end_ts] or
\* follows cancel_sale fails; a claim happens after end_ts on a sale that is
\* not cancelled and moves the buyer's tokens_owed; and the tokens the
\* buyers have received are the tokens_owed of the claimed contributions,
\* each counted once.
C39_SeedSaleAccounting ==
    /\ sale.raised_lamports =
           SumOfBuyers([u \in Users |-> contribution[u].contributed_lamports], Users)
    /\ sale.sold_tokens = SumOfBuyers([u \in Users |-> contribution[u].tokens_owed], Users)
    /\ sale.sol_cap_lamports > 0 => sale.raised_lamports <= sale.sol_cap_lamports
    /\ sale.token_cap > 0 => sale.sold_tokens <= sale.token_cap
    /\ \A buyer \in Users, amount \in 1..BuyerLamports :
           MustRefuse(amount) => ~ContributeCall(buyer, sale.treasury, amount).ok
    /\ seedLast.op = "claim"
           => /\ seedNow > sale.end_ts
              /\ ~sale.is_canceled
              /\ seedLast.amount = contribution[seedLast.signer].tokens_owed
              /\ contribution[seedLast.signer].claimed
    /\ SumOfBuyers([u \in Users |-> tokens[Ata(u)]], Users) =
           SumOfBuyers([u \in Users |->
                          IF contribution[u].claimed THEN contribution[u].tokens_owed ELSE 0],
                       Users)
    /\ lamports[SALE_TREASURY] = sale.raised_lamports
\* A buyer has claimed from a sale whose token cap is reached by the
\* contributions of both buyers, so a further contribution is refused.
C39_ClaimedFromCappedSale ==
    /\ seedLast.op = "claim"
    /\ seedLast.amount > 0
    /\ sale.token_cap > 0
    /\ sale.sold_tokens = sale.token_cap
    /\ \A u \in Users : contribution[u].contributed_lamports > 0
    /\ tokens[seedLast.to] = seedLast.amount

\* floor(total_amount * (now - start_ts) / (end_ts - start_ts)), not below
\* zero and capped at total_amount.
LinearShare(vest, t) ==
    LET share == (vest.total_amount * (t - vest.start_ts)) \div (vest.end_ts - vest.start_ts)
    IN  IF share < 0 THEN 0
        ELSE IF share > vest.total_amount THEN vest.total_amount
        ELSE share
C40_VestingStep ==
    \A b \in Beneficiaries :
        LET vest == vesting[b]'
        IN  /\ vest.claimed_amount >= vesting[b].claimed_amount
            /\ vest.exists
                   => /\ vest.claimed_amount <= LinearShare(vest, seedNow')
                      /\ \A signer \in Users, t \in SeedTokenAccounts, ata \in SeedTokenAccounts :
                             (seedNow' < vest.cliff_ts
                                  \/ LinearShare(vest, seedNow') <= vest.claimed_amount)
                                 => ~(ClaimVestingCall(signer, t, ata).ok)'
            /\ SumOfBuyers([u \in Users |-> tokens[Ata(u)]'], Users) = vest.claimed_amount
            /\ seedLast'.op = "claim_vesting"
                   => /\ seedLast'.amount = vest.claimed_amount - vesting[b].claimed_amount
                      /\ seedLast'.amount > 0
                      /\ seedLast'.signer = vest.beneficiary
                      /\ seedNow' >= vest.end_ts => vest.claimed_amount = vest.total_amount
\* C40: vesting. Over init_vesting, claim_vesting and the clock: no step
\* lowers claimed_amount; after every step claimed_amount is at most
\* floor(total_amount * (now - start_ts) / (end_ts - start_ts)) capped at
\* total_amount; the tokens moved to the accounts the beneficiary named sum
\* to claimed_amount; claim_vesting fails before cliff_ts and when nothing
\* new has vested; and a claim at now >= end_ts leaves claimed_amount equal
\* to total_amount.
C40_VestingLinear == [][C40_VestingStep]_seedVars
\* The beneficiary has claimed at or after end_ts the remainder left by an
\* earlier claim of a rounded-down share.
C40_FinalClaimAfterPartial ==
    /\ seedLast.op = "claim_vesting"
    /\ seedNow >= vesting["u1"].end_ts
    /\ seedLast.amount = 4
    /\ vesting["u1"].claimed_amount = vesting["u1"].total_amount
====
